---- MODULE Spec2Model ----
(***************************************************************************)
(* The project.pbxproj patch scripts of ios/ZairyuMate.  Each script reads *)
(* the manifest, writes a backup, builds the records of the files found    *)
(* on disk, rewrites the manifest line by line, writes it and validates    *)
(* it.  A manifest text is a sequence of line tokens and newline tokens; a *)
(* line token stands for one line of text and carries what the scripts'    *)
(* substring tests and the claims look at: its kind, its record ID and the *)
(* name in its comment.                                                    *)
(***************************************************************************)
EXTENDS Naturals, Sequences, FiniteSets, TLC

VARIABLES fs, disk, script, pc, text, lines, output, result, valid, pre, log, nruns, ids,
          peer

vars == <<fs, disk, script, pc, text, lines, output, result, valid, pre, log, nruns, ids, peer>>

(***************************************************************************)
(* Bounds of the model.                                                    *)
(***************************************************************************)
MaxRuns == 2
MaxFiles == 2
MaxDrop == 1
MaxSeq == 3

(***************************************************************************)
(* Lines and texts.                                                        *)
(***************************************************************************)
NoId == <<>>

Ln(k, id, nm) == [k |-> k, id |-> id, nm |-> nm]

Plain(k) == Ln(k, NoId, "")

\* the newline character
NL == Plain("NL")

\* the empty string as an element of a list of lines
EmptyLine == Plain("Empty")

\* an ID written in the manifest by hand, "A100000nn"
FixedId(n) == <<"A", n>>

\* hashlib.md5(str(seed)).hexdigest().upper()[:24]: one value per seed
Md5Id(seed) == <<"md5", seed>>

\* hashlib.sha256(base).hexdigest().upper()[:24], base = f"{tag}_{seed}_{name}"
ShaId(tag, seed, nm) == <<"sha", tag, seed, nm>>

MinOf(S) == CHOOSE j \in S : \A m \in S : j <= m

MaxOf(S) == CHOOSE j \in S : \A m \in S : j >= m

Least(a, b) == IF a <= b THEN a ELSE b

Range(q) == {q[k] : k \in 1..Len(q)}

Front(q) == SubSeq(q, 1, Len(q) - 1)

Last(q) == q[Len(q)]

\* the indices of q whose element passes the test, in order
Indices(q, Test(_)) == SelectSeq([k \in 1..Len(q) |-> k], LAMBDA k : Test(q[k]))

\* the pieces of t between its newlines: the n-th is the line token between the
\* (n-1)-th and the n-th newline, the empty string if there is none
Pieces(t) ==
    LET nl   == Indices(t, LAMBDA x : x = NL)
        from == [n \in 1..(Len(nl) + 1) |-> IF n = 1 THEN 1 ELSE nl[n - 1] + 1]
        to   == [n \in 1..(Len(nl) + 1) |-> IF n = Len(nl) + 1 THEN Len(t) ELSE nl[n] - 1]
    IN  [n \in 1..(Len(nl) + 1) |-> IF from[n] <= to[n] THEN t[from[n]] ELSE EmptyLine]

\* str.split('\n')
Split(t) == Pieces(t)

\* str.splitlines(): no last empty piece for a text that is empty or ends with a newline
SplitLines(t) ==
    IF t = <<>> \/ Last(t) = NL THEN Front(Pieces(t)) ELSE Pieces(t)

\* '\n'.join(ls): a newline between the lines, and nothing for an empty line
Join(ls) ==
    SelectSeq([k \in 1..(2 * Len(ls) - 1) |-> IF k % 2 = 1 THEN ls[(k + 1) \div 2] ELSE NL],
              LAMBDA x : x # EmptyLine)

\* '\n'.join(ls) + '\n'
JoinNL(ls) == Join(ls) \o <<NL>>

(***************************************************************************)
(* The substring tests of the scripts, on one line.                        *)
(***************************************************************************)
HasEndBuildFile(l) == l.k = "EndBF"

HasEndFileRef(l) == l.k = "EndFR"

HasEndGroup(l) == l.k = "EndGrp"

HasEndSources(l) == l.k = "EndSrc"

\* 'A10000042 /* Sources */' in line: the record header and the target's
\* buildPhases entry
HasSourcesName(l) == l.k \in {"SrcHdr", "SrcRef"}

\* 'A10000042 /* Sources */ = {' in line
HasSourcesHeader(l) == l.k = "SrcHdr"

HasIsaSources(l) == l.k = "IsaSrc"

HasFilesOpen(l) == l.k = "FilesOpen"

HasIsaGroup(l) == l.k = "IsaGrp"

HasChildrenOpen(l) == l.k = "ChildrenOpen"

\* ');' in line
HasClose(l) == l.k = "Close"

\* '};' in line: the end of a multi-line record and every one-line record
HasRecEnd(l) == l.k \in {"RecEnd", "FileRef", "BuildFile"}

\* f'{group_id} /* ' in line and '= {' in line
HasGroupHeader(l, gid) == l.id = gid /\ l.k \in {"GrpHdr", "FileRef", "BuildFile"}

\* marker in text
InText(t, Has(_)) == \E i \in 1..Len(t) : Has(t[i])

\* the first index from i on whose line passes the test, Len(L)+1 if none:
\* where "while i < len(lines) and X not in lines[i]: i += 1" stops
ScanTo(L, i, Has(_)) ==
    LET S == {j \in i..Len(L) : Has(L[j])}
    IN  IF S = {} THEN Len(L) + 1 ELSE MinOf(S)

\* the first index from i on that is in S, n + 1 if there is none
FirstIn(S, i, n) ==
    LET T == {j \in S : j >= i}
    IN  IF T = {} THEN n + 1 ELSE MinOf(T)

(***************************************************************************)
(* The manifest the scripts were written against, reduced to one record of *)
(* each kind they look for, and the files of the source tree.              *)
(***************************************************************************)
Absent == <<Plain("ABSENT")>>

FileNames == {"pbx", "manual_backup", "ULTIMATE_BACKUP", "complete_backup",
              "orig_backup", "bak", "FINAL_BACKUP", "backup", "backup_ts"}

StdLines ==
    << Plain("Other"),
       Plain("BeginBF"),
       Ln("BuildFile", FixedId(1), "ZairyuMateApp.swift"),
       Plain("EndBF"),
       Plain("BeginFR"),
       Ln("FileRef", FixedId(2), "ZairyuMateApp.swift"),
       Plain("EndFR"),
       Plain("BeginGrp"),
       Ln("GrpHdr", FixedId(22), "App"),
       Plain("IsaGrp"),
       Plain("ChildrenOpen"),
       Ln("Child", FixedId(2), "ZairyuMateApp.swift"),
       Plain("Close"),
       Ln("Path", NoId, "App"),
       Plain("RecEnd"),
       Ln("GrpHdr", FixedId(23), "Features"),
       Plain("IsaGrp"),
       Plain("ChildrenOpen"),
       Ln("Child", FixedId(28), "Home"),
       Plain("Close"),
       Ln("Path", NoId, "Features"),
       Plain("RecEnd"),
       Ln("GrpHdr", FixedId(35), "Storage"),
       Plain("IsaGrp"),
       Plain("ChildrenOpen"),
       Plain("Close"),
       Ln("Path", NoId, "Storage"),
       Plain("RecEnd"),
       Plain("EndGrp"),
       Plain("SrcRef"),
       Plain("BeginSrc"),
       Plain("SrcHdr"),
       Plain("IsaSrc"),
       Plain("Mask"),
       Plain("FilesOpen"),
       Ln("SrcEntry", FixedId(1), "ZairyuMateApp.swift"),
       Plain("Close"),
       Plain("RunOnly"),
       Plain("RecEnd"),
       Plain("EndSrc"),
       Plain("ListHdr"),
       Plain("ListOpen"),
       Plain("Close"),
       Plain("RecEnd"),
       Plain("Other") >>

\* the lines of StdLines a hand-edited manifest may lack
Droppable == {i \in 1..Len(StdLines) :
                StdLines[i].k \notin {"Other", "BeginBF", "BeginFR", "BeginGrp",
                                      "BeginSrc", "Path", "SrcRef", "RunOnly",
                                      "BuildFile", "FileRef", "Child", "SrcEntry",
                                      "ListHdr", "ListOpen"}}

\* the elements of L whose index is in keep, in order
Pick(L, keep) ==
    LET idx == SelectSeq([k \in 1..Len(L) |-> k], LAMBDA k : k \in keep)
    IN  [n \in 1..Len(idx) |-> L[idx[n]]]

\* the subsets of S with at most n elements
RECURSIVE UpTo(_, _)
UpTo(S, n) ==
    IF n = 0 THEN {{}}
    ELSE LET P == UpTo(S, n - 1) IN P \cup {D \cup {x} : D \in P, x \in S}

DocLines == {Pick(StdLines, (1..Len(StdLines)) \ D) : D \in UpTo(Droppable, MaxDrop)}

\* what the backups of earlier runs hold when a run starts: nothing, the manifest
\* as it is now, or an older state of it
BackupModes == {"none", "same", "older"}

File(dir, nm) == [dir |-> dir, nm |-> nm]

\* the source tree in the order of sorted(src.rglob("*.swift"))
DiskUniverse ==
    << File(<<"App">>, "ZairyuMateApp.swift"),
       File(<<"Core", "Storage">>, "Store.swift"),
       File(<<"Features", "Home", "ViewModels", "Detail">>, "DetailVM.swift"),
       File(<<"Features", "Home", "ViewModels">>, "HomeVM.swift"),
       File(<<"Features", "Home", "Views">>, "HomeVM.swift"),
       File(<<>>, "Main.swift") >>

Disks == {[files |-> Pick(DiskUniverse, {1} \cup S), cdm |-> c] :
            S \in UpTo(2..Len(DiskUniverse), MaxFiles),
            c \in BOOLEAN}

\* curr / curr_files / current_files: the names already in the project
curr == {"ZairyuMateApp.swift", "Constants.swift", "Extensions.swift",
         "ColorTheme.swift", "Typography.swift", "Spacing.swift"}

CdmName == "ZairyuMateDataModel.xcdatamodeld"

\* [f.name for f in sorted(src.rglob("*.swift")) if f.name not in curr]
RECURSIVE NewNames(_)
NewNames(fl) ==
    IF fl = <<>> THEN <<>>
    ELSE (IF Head(fl).nm \in curr THEN <<>> ELSE <<Head(fl).nm>>) \o NewNames(Tail(fl))

FileRefLine(fid, nm) == Ln("FileRef", fid, nm)

BuildFileLine(bid, nm) == Ln("BuildFile", bid, nm)

SourceLine(bid, nm) == Ln("SrcEntry", bid, nm)

ChildLine(id, nm) == Ln("Child", id, nm)

NoEntries == [refs |-> <<>>, builds |-> <<>>, sources |-> <<>>]

\* refs, builds, sources of a list of names, IDs from gen_id(seed), gen_id(seed+1),
\* seed += 2
SeededEntries(names, seed) ==
    [refs    |-> [k \in 1..Len(names) |-> FileRefLine(Md5Id(seed + 2 * (k - 1)), names[k])],
     builds  |-> [k \in 1..Len(names) |-> BuildFileLine(Md5Id(seed + 2 * (k - 1) + 1), names[k])],
     sources |-> [k \in 1..Len(names) |-> SourceLine(Md5Id(seed + 2 * (k - 1) + 1), names[k])]]

Done(out) == [ok |-> TRUE, out |-> out]

\* an IndexError ends the script
Raise == [ok |-> FALSE, out |-> <<>>]

(***************************************************************************)
(* manual_fix.py                                                           *)
(***************************************************************************)
ManualSeed == 60000

ManualNewFiles(d) == NewNames(d.files) \o <<CdmName>>

ManualEntries(d) == SeededEntries(ManualNewFiles(d), ManualSeed)

\* the lines that one of the three cases of the loop matches
ManualCases(L) ==
    {i \in 1..Len(L) :
        \/ HasEndBuildFile(L[i])
        \/ HasEndFileRef(L[i])
        \/ HasSourcesName(L[i]) /\ (i + 1 > Len(L) \/ HasIsaSources(L[i + 1]))}

\* the lines in front of the next matching line are copied; the loop goes on
\* behind what the case of that line consumed
RECURSIVE ManualLoop(_, _, _, _)
ManualLoop(L, i, out, g) ==
    LET s    == FirstIn(ManualCases(L), i, Len(L))
        copy == out \o SubSeq(L, i, s - 1)
    IN  IF s > Len(L) THEN Done(copy)
        ELSE IF HasEndBuildFile(L[s]) THEN ManualLoop(L, s + 1, copy \o g.builds \o <<L[s]>>, g)
        ELSE IF HasEndFileRef(L[s]) THEN ManualLoop(L, s + 1, copy \o g.refs \o <<L[s]>>, g)
        ELSE IF s + 1 > Len(L) THEN Raise
        ELSE LET c == ScanTo(L, s + 4, HasClose)
                 e == ScanTo(L, c + 1, HasRecEnd)
             IN  IF s + 3 > Len(L) \/ c > Len(L) \/ e > Len(L) THEN Raise
                 ELSE ManualLoop(L, e + 1,
                                 copy \o SubSeq(L, s, c - 1) \o g.sources \o SubSeq(L, c, e), g)

\* a validation that looks for the first marker only
ManualValidBuildOnly(t) == InText(t, HasEndBuildFile)

ManualValid(t) == InText(t, HasEndBuildFile) /\ InText(t, HasEndFileRef)

(***************************************************************************)
(* proper_fix.py                                                           *)
(***************************************************************************)
ProperSeed == 10000

\* how far the search for 'files = (' and for ');' looks
ProperFilesLook == 20

ProperCloseLook == 50

\* the names of the source tree in the order sorted() gives a list of names
NameOrder == <<"DetailVM.swift", "HomeVM.swift", "HomeView.swift", "ListVM.swift", "Main.swift",
               "Store.swift", "ZairyuMateApp.swift", "ZairyuMateDataModel.xcdatamodeld">>

\* sorted(names)
RECURSIVE SortNamesFrom(_, _)
SortNamesFrom(names, r) ==
    IF r > Len(NameOrder) THEN <<>>
    ELSE SelectSeq(names, LAMBDA n : n = NameOrder[r]) \o SortNamesFrom(names, r + 1)

SortNames(names) == SortNamesFrom(names, 1)

ProperToAdd(d) == SortNames(NewNames(d.files))

\* file_refs, build_files, source_entries: the Swift files, then the CoreData model
ProperEntries(d) ==
    LET to_add == ProperToAdd(d)
        n      == Len(to_add)
        cseed  == ProperSeed + n
    IN  [refs    |-> [k \in 1..n |-> FileRefLine(ShaId("file", ProperSeed + k - 1, to_add[k]), to_add[k])]
                     \o (IF d.cdm THEN <<FileRefLine(ShaId("file_coredata", cseed, ""), CdmName)>>
                         ELSE <<>>),
         builds  |-> [k \in 1..n |-> BuildFileLine(ShaId("build", ProperSeed + k - 1, to_add[k]), to_add[k])]
                     \o (IF d.cdm THEN <<BuildFileLine(ShaId("build_coredata", cseed, ""), CdmName)>>
                         ELSE <<>>),
         sources |-> [k \in 1..n |-> SourceLine(ShaId("build", ProperSeed + k - 1, to_add[k]), to_add[k])]
                     \o (IF d.cdm THEN <<SourceLine(ShaId("build_coredata", cseed, ""), CdmName)>>
                         ELSE <<>>)]

\* the index (from 1) of the last line passing the test, 0 for Python's None
LastIdx(L, Has(_)) ==
    LET S == {i \in 1..Len(L) : Has(L[i])}
    IN  IF S = {} THEN 0 ELSE MaxOf(S)

\* the index (from 1) the header at index i gives sources_insert_idx, 0 if it
\* assigns nothing
ProperSourcesAt(L, i) ==
    LET Js == {j \in i..Least(i + ProperFilesLook - 1, Len(L)) : HasFilesOpen(L[j])}
    IN  IF Js = {} THEN 0
        ELSE LET j  == MinOf(Js)
                 Ks == {k \in (j + 1)..Least(j + ProperCloseLook - 1, Len(L)) : HasClose(L[k])}
             IN  IF Ks = {} THEN 0 ELSE MinOf(Ks)

ProperSourcesIdx(L) ==
    LET S == {i \in 1..Len(L) : HasSourcesHeader(L[i]) /\ ProperSourcesAt(L, i) # 0}
    IN  IF S = {} THEN 0 ELSE ProperSourcesAt(L, MaxOf(S))

ProperFind(L) ==
    [b |-> LastIdx(L, HasEndBuildFile),
     f |-> LastIdx(L, HasEndFileRef),
     s |-> ProperSourcesIdx(L)]

\* not all([buildfile_end_idx, fileref_end_idx, sources_insert_idx]): None is false,
\* and so is Python's index 0, the first line
Falsy(x) == x = 0 \/ x = 1

\* an abort test that does not look at the Sources insertion point
ProperAbortTwo(a) == Falsy(a.b) \/ Falsy(a.f)

ProperAbort(a) == Falsy(a.b) \/ Falsy(a.f) \/ Falsy(a.s)

\* the second loop over enumerate(lines), from line i (from 1) on
\* a composition that puts the three blocks at the end of the document
ProperComposeBehind(L, i, a, g) ==
    [k \in 1..Len(L) |-> L[k]]
    \o (IF a.b \in 1..Len(L) THEN g.builds ELSE <<>>)
    \o (IF a.f \in 1..Len(L) THEN g.refs ELSE <<>>)
    \o (IF a.s \in 1..Len(L) THEN g.sources ELSE <<>>)

\* the lines in front of the next insertion index are copied as they are
RECURSIVE ProperCompose(_, _, _, _)
ProperCompose(L, i, a, g) ==
    LET s == FirstIn({a.b, a.f, a.s}, i, Len(L))
    IN  IF s > Len(L) THEN SubSeq(L, i, Len(L))
        ELSE SubSeq(L, i, s - 1)
             \o (IF a.b = s THEN g.builds ELSE <<>>)
             \o (IF a.f = s THEN g.refs ELSE <<>>)
             \o (IF a.s = s THEN g.sources ELSE <<>>)
             \o <<L[s]>>
             \o ProperCompose(L, s + 1, a, g)

ProperValid(t) == InText(t, HasEndBuildFile) /\ InText(t, HasEndFileRef)

(***************************************************************************)
(* ULTIMATE_FIX.py                                                         *)
(***************************************************************************)
UltimateGroupSeed == 80000

UltimateFileSeed == 90000

Group(path, id) == [path |-> path, id |-> id]

BASE_GROUPS ==
    << Group(<<"Core">>, FixedId(24)),
       Group(<<"Core", "Models">>, FixedId(33)),
       Group(<<"Core", "Services">>, FixedId(34)),
       Group(<<"Core", "Storage">>, FixedId(35)),
       Group(<<"Core", "Utilities">>, FixedId(36)),
       Group(<<"Features">>, FixedId(23)),
       Group(<<"Features", "Home">>, FixedId(28)),
       Group(<<"Features", "Profile">>, FixedId(29)),
       Group(<<"Features", "Documents">>, FixedId(30)),
       Group(<<"Features", "Timeline">>, FixedId(31)),
       Group(<<"Features", "Settings">>, FixedId(32)),
       Group(<<"UI">>, FixedId(25)),
       Group(<<"UI", "Components">>, FixedId(37)),
       Group(<<"UI", "Styles">>, FixedId(38)),
       Group(<<"UI", "Theme">>, FixedId(39)) >>

Paths(groups) == {g.path : g \in Range(groups)}

\* the directories of the source tree as strings, in the order sorted() gives them
PathOrder ==
    << <<>>, <<".">>, <<"App">>, <<"Core", "Storage">>,
       <<"Features", "Home", "ViewModels">>,
       <<"Features", "Home", "ViewModels", "Detail">>,
       <<"Features", "Home", "Views">> >>

\* sorted(S) of a set of directory strings
SortPaths(S) == SelectSeq(PathOrder, LAMBDA p : p \in S)

\* d[nm] = dir on a dict kept as the list of its items
DictSet(m, nm, dir) ==
    IF \E k \in 1..Len(m) : m[k].nm = nm
    THEN [k \in 1..Len(m) |-> IF m[k].nm = nm THEN File(dir, nm) ELSE m[k]]
    ELSE Append(m, File(dir, nm))

\* str(rel.parent): the directory of a file of the source root is '.'
StrParent(f) == IF f.dir = <<>> THEN <<".">> ELSE f.dir

\* file_map: filename -> group_path
RECURSIVE UltimateScan(_, _)
UltimateScan(fl, m) ==
    IF fl = <<>> THEN m
    ELSE IF Head(fl).nm \in curr THEN UltimateScan(Tail(fl), m)
    ELSE UltimateScan(Tail(fl), DictSet(m, Head(fl).nm, StrParent(Head(fl))))

UltimateFileMap(d) == DictSet(UltimateScan(d.files, <<>>), CdmName, <<"Core", "Storage">>)

UltimateNewGroups(fm) == SortPaths({fm[k].dir : k \in 1..Len(fm)} \ Paths(BASE_GROUPS))

\* file_ids[fname]
UltimateFileId(fm, k) == Md5Id(UltimateFileSeed + 2 * (k - 1))

\* the (fid, fname) pairs of the files mapped to directory p, as child lines
UltimateFilesOf(fm, p) ==
    LET idx == SelectSeq([k \in 1..Len(fm) |-> k], LAMBDA k : fm[k].dir = p)
    IN  [n \in 1..Len(idx) |-> ChildLine(UltimateFileId(fm, idx[n]), fm[idx[n]].nm)]

\* subgroups, in the order of new_groups_needed
UltimateSubgroups(fm) ==
    LET ng == UltimateNewGroups(fm)
    IN  [k \in 1..Len(ng) |->
            [path   |-> ng[k],
             id     |-> Md5Id(UltimateGroupSeed + k - 1),
             name   |-> Last(ng[k]),
             parent |-> Front(ng[k]),
             files  |-> UltimateFilesOf(fm, ng[k])]]

UltimateEntries(fm) == SeededEntries([k \in 1..Len(fm) |-> fm[k].nm], UltimateFileSeed)

\* BASE_GROUPS after the loop that adds the new subgroups to it
UltimateAllGroups(sg) == BASE_GROUPS \o [k \in 1..Len(sg) |-> Group(sg[k].path, sg[k].id)]

\* the lines step 4 adds to the children of the group g: base_group_files[group_id],
\* then the subgroups whose parent is the group's path
UltimateNewChildren(fm, sg, g) ==
    (IF g.path \in Paths(BASE_GROUPS) THEN UltimateFilesOf(fm, g.path) ELSE <<>>)
    \o LET sub == SelectSeq(sg, LAMBDA x : x.parent = g.path)
       IN  [k \in 1..Len(sub) |-> ChildLine(sub[k].id, sub[k].name)]

GroupDef(id, name, children) ==
    <<Ln("GrpHdr", id, name), Plain("IsaGrp"), Plain("ChildrenOpen")>>
    \o children
    \o <<Plain("Close"), Ln("Path", NoId, name), Plain("SourceTree"), Plain("RecEnd")>>

\* step 5: the definitions of the subgroups, for sg_path in sorted(subgroups.keys())
RECURSIVE UltimateDefs(_)
UltimateDefs(sg) ==
    IF sg = <<>> THEN <<>>
    ELSE GroupDef(Head(sg).id, Head(sg).name, Head(sg).files) \o UltimateDefs(Tail(sg))

\* the group of the table whose header the line is, if any
MatchGroup(groups, l) == SelectSeq(groups, LAMBDA g : HasGroupHeader(l, g.id))

\* what ends an iteration that took no "continue" of the while loop: step 5 and the
\* final output.append(line)
UltimateTail(l, out, sg) ==
    out \o (IF HasEndGroup(l) THEN UltimateDefs(sg) ELSE <<>>) \o <<l>>

\* the lines that one of the five steps of the loop matches
UltimateCases(L, sg) ==
    {i \in 1..Len(L) :
        \/ HasEndBuildFile(L[i])
        \/ HasEndFileRef(L[i])
        \/ HasEndGroup(L[i])
        \/ i + 1 <= Len(L) /\ HasSourcesName(L[i]) /\ HasIsaSources(L[i + 1])
        \/ i + 1 <= Len(L) /\ HasIsaGroup(L[i + 1])
                           /\ MatchGroup(UltimateAllGroups(sg), L[i]) # <<>>}

\* the lines in front of the next matching line are copied; the loop goes on
\* behind what the step of that line consumed
RECURSIVE UltimateLoop(_, _, _, _, _, _)
UltimateLoop(L, i, out, g, fm, sg) ==
    LET s    == FirstIn(UltimateCases(L, sg), i, Len(L))
        copy == out \o SubSeq(L, i, s - 1)
    IN  IF s > Len(L) THEN Done(copy)
        ELSE IF HasEndBuildFile(L[s]) THEN
            UltimateLoop(L, s + 1, copy \o g.builds \o <<L[s]>>, g, fm, sg)
        ELSE IF HasEndFileRef(L[s]) THEN
            UltimateLoop(L, s + 1, copy \o g.refs \o <<L[s]>>, g, fm, sg)
        ELSE IF HasSourcesName(L[s]) /\ s + 1 <= Len(L) /\ HasIsaSources(L[s + 1]) THEN
            LET c == ScanTo(L, s + 4, HasClose)
                e == ScanTo(L, c + 1, HasRecEnd)
            IN  IF s + 3 > Len(L) \/ c > Len(L) \/ e > Len(L) THEN Raise
                ELSE UltimateLoop(L, e + 1,
                                  copy \o SubSeq(L, s, c - 1) \o g.sources \o SubSeq(L, c, e),
                                  g, fm, sg)
        ELSE LET m == MatchGroup(UltimateAllGroups(sg), L[s])
             IN  IF m # <<>> /\ s + 1 <= Len(L) /\ HasIsaGroup(L[s + 1]) THEN
                     \* the "continue" that ends the patch is the "for" loop's: the
                     \* iteration goes on to step 5 and the final append with the old line
                     LET j == ScanTo(L, s + 2, HasChildrenOpen)
                         c == ScanTo(L, j + 1, HasClose)
                         e == ScanTo(L, c + 1, HasRecEnd)
                     IN  IF j > Len(L) \/ c > Len(L) \/ e > Len(L) THEN Raise
                         ELSE UltimateLoop(L, e + 2,
                                           UltimateTail(L[s],
                                                        copy \o SubSeq(L, s, c - 1)
                                                             \o UltimateNewChildren(fm, sg, m[1])
                                                             \o SubSeq(L, c, e),
                                                        sg),
                                           g, fm, sg)
                 ELSE UltimateLoop(L, s + 1, UltimateTail(L[s], copy, sg), g, fm, sg)

UltimateRun(L, d) ==
    LET fm == UltimateFileMap(d)
    IN  UltimateLoop(L, 1, <<>>, UltimateEntries(fm), fm, UltimateSubgroups(fm))

UltimateValid(t) == InText(t, HasEndBuildFile) /\ InText(t, HasEndGroup)

(***************************************************************************)
(* complete_fix.py                                                         *)
(***************************************************************************)
CompleteGroupSeed == 1000

CompleteFileSeed == 50000

GROUP_IDS ==
    << Group(<<"Core", "Models">>, FixedId(33)),
       Group(<<"Core", "Services">>, FixedId(34)),
       Group(<<"Core", "Storage">>, FixedId(35)),
       Group(<<"Core", "Utilities">>, FixedId(36)),
       Group(<<"Features", "Home">>, FixedId(28)),
       Group(<<"Features", "Profile">>, FixedId(29)),
       Group(<<"Features", "Documents">>, FixedId(30)),
       Group(<<"Features", "Timeline">>, FixedId(31)),
       Group(<<"Features", "Settings">>, FixedId(32)),
       Group(<<"UI", "Components">>, FixedId(37)),
       Group(<<"UI", "Styles">>, FixedId(38)),
       Group(<<"UI", "Theme">>, FixedId(39)) >>

\* file_groups[parent].append(nm) on a defaultdict(list) kept as the list of its items
ListAppend(m, parent, nm) ==
    IF \E k \in 1..Len(m) : m[k].path = parent
    THEN [k \in 1..Len(m) |->
            IF m[k].path = parent THEN [path |-> parent, names |-> Append(m[k].names, nm)]
            ELSE m[k]]
    ELSE Append(m, [path |-> parent, names |-> <<nm>>])

RECURSIVE CompleteScan(_, _)
CompleteScan(fl, m) ==
    IF fl = <<>> THEN m
    ELSE IF Head(fl).nm \in curr THEN CompleteScan(Tail(fl), m)
    ELSE CompleteScan(Tail(fl), ListAppend(m, Head(fl).dir, Head(fl).nm))

CompleteFileGroups(d) == ListAppend(CompleteScan(d.files, <<>>), <<"Core", "Storage">>, CdmName)

\* file_groups[p], [] for a path that is no key
NamesOf(fg, p) ==
    LET hit == SelectSeq(fg, LAMBDA x : x.path = p)
    IN  IF hit = <<>> THEN <<>> ELSE hit[1].names

\* sorted(file_groups.keys())
CompleteSortedPaths(fg) == SortPaths({fg[k].path : k \in 1..Len(fg)})

\* subgroups_needed and subgroup_defs: one per path that is not '' and not in GROUP_IDS
CompleteSubgroups(fg) ==
    LET ng == SelectSeq(CompleteSortedPaths(fg),
                        LAMBDA p : p # <<>> /\ p \notin Paths(GROUP_IDS))
    IN  [k \in 1..Len(ng) |->
            [path   |-> ng[k],
             id     |-> ShaId("group", CompleteGroupSeed + k - 1, ng[k]),
             name   |-> Last(ng[k]),
             parent |-> Front(ng[k]),
             names  |-> NamesOf(fg, ng[k])]]

\* the names in the order the file entries are generated:
\* for group_path in sorted(file_groups.keys()): for fname in sorted(file_groups[group_path])
RECURSIVE CompleteOrder(_, _)
CompleteOrder(fg, ps) ==
    IF ps = <<>> THEN <<>>
    ELSE SortNames(NamesOf(fg, Head(ps))) \o CompleteOrder(fg, Tail(ps))

CompleteNames(fg) == CompleteOrder(fg, CompleteSortedPaths(fg))

CompleteEntries(fg) ==
    LET ns == CompleteNames(fg)
    IN  [refs    |-> [k \in 1..Len(ns) |-> FileRefLine(ShaId("file", CompleteFileSeed + k - 1, ns[k]), ns[k])],
         builds  |-> [k \in 1..Len(ns) |-> BuildFileLine(ShaId("build", CompleteFileSeed + k - 1, ns[k]), ns[k])],
         sources |-> [k \in 1..Len(ns) |-> SourceLine(ShaId("build", CompleteFileSeed + k - 1, ns[k]), ns[k])]]

\* file_id_map[nm]: the ID of the last entry generated for the name
CompleteFileId(fg, nm) ==
    LET ns == CompleteNames(fg)
        k  == MaxOf({k \in 1..Len(ns) : ns[k] = nm})
    IN  ShaId("file", CompleteFileSeed + k - 1, nm)

CompleteFileChildren(fg, names) ==
    [k \in 1..Len(names) |-> ChildLine(CompleteFileId(fg, names[k]), names[k])]

\* GROUP_IDS after the subgroups were added to it
CompleteAllGroups(sg) == GROUP_IDS \o [k \in 1..Len(sg) |-> Group(sg[k].path, sg[k].id)]

\* group_children_to_add[g.id]: the files of the group's path, then the new subgroups
\* whose parent it is
CompleteNewChildren(fg, sg, g) ==
    CompleteFileChildren(fg, NamesOf(fg, g.path))
    \o LET sub == SelectSeq(sg, LAMBDA x : x.parent # <<>> /\ x.parent = g.path)
       IN  [k \in 1..Len(sub) |-> ChildLine(sub[k].id, sub[k].name)]

\* step 5: the definitions of subgroup_defs
RECURSIVE CompleteDefs(_, _)
CompleteDefs(fg, sg) ==
    IF sg = <<>> THEN <<>>
    ELSE GroupDef(Head(sg).id, Head(sg).name, CompleteFileChildren(fg, Head(sg).names))
         \o CompleteDefs(fg, Tail(sg))

\* the lines the while loop appends from line i (from 1) on
\* the lines that one of the five steps of the loop matches
CompleteCases(L, sg) ==
    {i \in 1..Len(L) :
        \/ HasEndBuildFile(L[i])
        \/ HasEndFileRef(L[i])
        \/ HasEndGroup(L[i])
        \/ HasSourcesHeader(L[i])
        \/ MatchGroup(CompleteAllGroups(sg), L[i]) # <<>>}

\* the lines in front of the next matching line are copied; the loop goes on
\* behind what the step of that line consumed
RECURSIVE CompleteLoop(_, _, _, _, _)
CompleteLoop(L, i, g, fg, sg) ==
    LET s == FirstIn(CompleteCases(L, sg), i, Len(L))
    IN  IF s > Len(L) THEN SubSeq(L, i, Len(L))
        ELSE LET line == L[s]
                 \* steps 1 and 2 take no "continue"
                 o12  == SubSeq(L, i, s - 1)
                         \o (IF HasEndBuildFile(line) THEN g.builds ELSE <<>>)
                         \o (IF HasEndFileRef(line) THEN g.refs ELSE <<>>)
                 m    == MatchGroup(CompleteAllGroups(sg), line)
             IN  IF HasSourcesHeader(line) THEN
                     \* step 3 ends with new_lines.append(line), line still being the header
                     LET j == ScanTo(L, s + 1, HasFilesOpen)
                         c == ScanTo(L, j + 1, HasClose)
                     IN  IF j > Len(L)
                         THEN o12 \o SubSeq(L, s, Len(L)) \o <<line>>
                         ELSE o12 \o SubSeq(L, s, c - 1) \o g.sources \o <<line>>
                              \o CompleteLoop(L, c + 1, g, fg, sg)
                 ELSE IF m # <<>> THEN
                     \* step 4 ends with new_lines.append(line) and the "for" loop's
                     \* "continue"; the iteration then ends with the final append
                     LET j == ScanTo(L, s + 1, HasChildrenOpen)
                         c == ScanTo(L, j + 1, HasClose)
                     IN  IF j > Len(L)
                         THEN o12 \o SubSeq(L, s, Len(L)) \o <<line, line>>
                         ELSE o12 \o SubSeq(L, s, c - 1) \o CompleteNewChildren(fg, sg, m[1])
                              \o <<line, line>>
                              \o CompleteLoop(L, c + 2, g, fg, sg)
                 ELSE o12 \o (IF HasEndGroup(line) THEN CompleteDefs(fg, sg) ELSE <<>>)
                      \o <<line>>
                      \o CompleteLoop(L, s + 1, g, fg, sg)

CompleteRun(L, d) ==
    LET fg == CompleteFileGroups(d)
    IN  CompleteLoop(L, 1, CompleteEntries(fg), fg, CompleteSubgroups(fg))

CompleteValid(t) ==
    /\ InText(t, HasEndBuildFile)
    /\ InText(t, HasEndFileRef)
    /\ InText(t, HasEndGroup)
    /\ InText(t, HasEndSources)

Locals == <<text, lines, output, result, valid>>

\* a run of the script s is started, the n-th at most
StartUpTo(s, n) ==
    /\ pc = "idle"
    /\ nruns < n
    /\ script' = s
    /\ pc' = "read"
    /\ pre' = fs["pbx"]
    /\ log' = <<>>
    /\ UNCHANGED <<fs, disk, ids, nruns, Locals, peer>>

Start(s) == StartUpTo(s, MaxRuns)

WriteFile(f, t) ==
    /\ fs' = [fs EXCEPT ![f] = t]
    /\ log' = Append(log, f)

ManualRead ==
    /\ script = "manual" /\ pc = "read"
    /\ text' = fs["pbx"]
    /\ lines' = SplitLines(fs["pbx"])
    /\ pc' = "backup"
    /\ UNCHANGED <<fs, disk, ids, script, output, result, valid, pre, log, nruns, peer>>

ManualBackup ==
    /\ script = "manual" /\ pc = "backup"
    /\ WriteFile("manual_backup", text)
    /\ pc' = "rewrite"
    /\ UNCHANGED <<disk, ids, script, Locals, pre, nruns, peer>>

ManualRewrite ==
    /\ script = "manual" /\ pc = "rewrite"
    /\ LET r == ManualLoop(lines, 1, <<>>, ManualEntries(disk))
       IN  IF r.ok
           THEN /\ output' = r.out
                /\ result' = JoinNL(r.out)
                /\ pc' = "write"
           ELSE /\ pc' = "raised"
                /\ UNCHANGED <<output, result, peer>>
    /\ UNCHANGED <<fs, disk, ids, script, text, lines, valid, pre, log, nruns, peer>>

\* a write of the joined lines without the newline at the end
ManualWriteUnterminated ==
    /\ script = "manual" /\ pc = "write"
    /\ WriteFile("pbx", Join(output))
    /\ pc' = "validate"
    /\ UNCHANGED <<disk, ids, script, Locals, pre, nruns, peer>>

ManualWrite ==
    /\ script = "manual" /\ pc = "write"
    /\ WriteFile("pbx", result)
    /\ pc' = "validate"
    /\ UNCHANGED <<disk, ids, script, Locals, pre, nruns, peer>>

ManualValidate ==
    /\ script = "manual" /\ pc = "validate"
    /\ valid' = IF ManualValid(result) THEN "pass" ELSE "fail"
    /\ pc' = IF ManualValid(result) THEN "done" ELSE "restore"
    /\ UNCHANGED <<fs, disk, ids, script, text, lines, output, result, pre, log, nruns, peer>>

ManualRestore ==
    /\ script = "manual" /\ pc = "restore"
    /\ WriteFile("pbx", text)
    /\ pc' = "failed"
    /\ UNCHANGED <<disk, ids, script, Locals, pre, nruns, peer>>

ProperRead ==
    /\ script = "proper" /\ pc = "read"
    /\ text' = fs["pbx"]
    /\ pc' = "backup"
    /\ UNCHANGED <<fs, disk, ids, script, lines, output, result, valid, pre, log, nruns, peer>>

ProperBackup ==
    /\ script = "proper" /\ pc = "backup"
    /\ WriteFile("bak", text)
    /\ lines' = Split(text)
    /\ pc' = "rewrite"
    /\ UNCHANGED <<disk, ids, script, text, output, result, valid, pre, nruns, peer>>

\* the search for the insertion points, exit(1) or the composed rewrite
ProperRewrite ==
    /\ script = "proper" /\ pc = "rewrite"
    /\ LET a == ProperFind(lines)
       IN  IF ProperAbort(a)
           THEN /\ pc' = "exit1"
                /\ UNCHANGED <<output, result, peer>>
           ELSE /\ output' = ProperCompose(lines, 1, a, ProperEntries(disk))
                /\ result' = Join(output')
                /\ pc' = "write"
    /\ UNCHANGED <<fs, disk, ids, script, text, lines, valid, pre, log, nruns, peer>>

ProperWrite ==
    /\ script = "proper" /\ pc = "write"
    /\ WriteFile("pbx", result)
    /\ pc' = "validate"
    /\ UNCHANGED <<disk, ids, script, Locals, pre, nruns, peer>>

\* new_text = pbx.read_text(), the test, and the restore with exit(1)
ProperValidate ==
    /\ script = "proper" /\ pc = "validate"
    /\ IF ProperValid(fs["pbx"])
       THEN /\ valid' = "pass"
            /\ pc' = "done"
            /\ UNCHANGED <<fs, log, peer>>
       ELSE /\ valid' = "fail"
            /\ WriteFile("pbx", text)
            /\ pc' = "exit1"
    /\ UNCHANGED <<disk, ids, script, text, lines, output, result, pre, nruns, peer>>

\* backup.read_text(): the script reads project.pbxproj.manual_backup
UltimateRead ==
    /\ script = "ultimate" /\ pc = "read"
    /\ IF fs["manual_backup"] = Absent
       THEN /\ pc' = "raised"
            /\ UNCHANGED <<text, lines, peer>>
       ELSE /\ text' = fs["manual_backup"]
            /\ lines' = SplitLines(fs["manual_backup"])
            /\ pc' = "backup"
    /\ UNCHANGED <<fs, disk, ids, script, output, result, valid, pre, log, nruns, peer>>

UltimateBackup ==
    /\ script = "ultimate" /\ pc = "backup"
    /\ WriteFile("ULTIMATE_BACKUP", text)
    /\ pc' = "rewrite"
    /\ UNCHANGED <<disk, ids, script, Locals, pre, nruns, peer>>

UltimateRewrite ==
    /\ script = "ultimate" /\ pc = "rewrite"
    /\ LET r == UltimateRun(lines, disk)
       IN  IF r.ok
           THEN /\ output' = r.out
                /\ result' = JoinNL(r.out)
                /\ pc' = "write"
           ELSE /\ pc' = "raised"
                /\ UNCHANGED <<output, result, peer>>
    /\ UNCHANGED <<fs, disk, ids, script, text, lines, valid, pre, log, nruns, peer>>

UltimateWrite ==
    /\ script = "ultimate" /\ pc = "write"
    /\ WriteFile("pbx", result)
    /\ pc' = "validate"
    /\ UNCHANGED <<disk, ids, script, Locals, pre, nruns, peer>>

UltimateValidate ==
    /\ script = "ultimate" /\ pc = "validate"
    /\ valid' = IF UltimateValid(result) THEN "pass" ELSE "fail"
    /\ pc' = IF UltimateValid(result) THEN "done" ELSE "restore"
    /\ UNCHANGED <<fs, disk, ids, script, text, lines, output, result, pre, log, nruns, peer>>

UltimateRestore ==
    /\ script = "ultimate" /\ pc = "restore"
    /\ WriteFile("pbx", text)
    /\ pc' = "failed"
    /\ UNCHANGED <<disk, ids, script, Locals, pre, nruns, peer>>

\* "Restore from original backup": project.pbxproj.backup.20260128_110306, if it exists
CompleteRestoreOrig ==
    /\ script = "complete" /\ pc = "read"
    /\ fs["orig_backup"] # Absent
    /\ WriteFile("pbx", fs["orig_backup"])
    /\ pc' = "read2"
    /\ UNCHANGED <<disk, ids, script, Locals, pre, nruns, peer>>

CompleteRead ==
    /\ script = "complete"
    /\ \/ pc = "read" /\ fs["orig_backup"] = Absent
       \/ pc = "read2"
    /\ text' = fs["pbx"]
    /\ pc' = "backup"
    /\ UNCHANGED <<fs, disk, ids, script, lines, output, result, valid, pre, log, nruns, peer>>

CompleteBackup ==
    /\ script = "complete" /\ pc = "backup"
    /\ WriteFile("complete_backup", text)
    /\ lines' = Split(text)
    /\ pc' = "rewrite"
    /\ UNCHANGED <<disk, ids, script, text, output, result, valid, pre, nruns, peer>>

CompleteRewrite ==
    /\ script = "complete" /\ pc = "rewrite"
    /\ output' = CompleteRun(lines, disk)
    /\ result' = Join(output')
    /\ pc' = "write"
    /\ UNCHANGED <<fs, disk, ids, script, text, lines, valid, pre, log, nruns, peer>>

CompleteWrite ==
    /\ script = "complete" /\ pc = "write"
    /\ WriteFile("pbx", result)
    /\ pc' = "validate"
    /\ UNCHANGED <<disk, ids, script, Locals, pre, nruns, peer>>

CompleteValidate ==
    /\ script = "complete" /\ pc = "validate"
    /\ valid' = IF CompleteValid(result) THEN "pass" ELSE "fail"
    /\ pc' = IF CompleteValid(result) THEN "done" ELSE "restore"
    /\ UNCHANGED <<fs, disk, ids, script, text, lines, output, result, pre, log, nruns, peer>>

\* pbx.write_text(text) and exit(1)
CompleteRestore ==
    /\ script = "complete" /\ pc = "restore"
    /\ WriteFile("pbx", text)
    /\ pc' = "exit1"
    /\ UNCHANGED <<disk, ids, script, Locals, pre, nruns, peer>>

\* the process has ended: normally, after the restore, by exit(1) or by an exception
Ended == pc \in {"done", "failed", "exit1", "raised"}

Finish ==
    /\ Ended
    /\ pc' = "idle"
    /\ script' = "none"
    /\ nruns' = nruns + 1
    /\ text' = <<>> /\ lines' = <<>> /\ output' = <<>> /\ result' = <<>>
    /\ valid' = "none"
    /\ ids' = <<>>
    /\ UNCHANGED <<fs, disk, pre, log, peer>>

\* no second invocation of a script runs beside the one of script and pc
NoPeer == [pc |-> "none", text |-> <<>>, result |-> <<>>, valid |-> "none",
           seen |-> {}, orig |-> <<>>]

\* the files before the first run, the manifest being one of Docs
InitFiles(Docs, Trees) ==
    /\ \E L \in Docs, m \in BackupModes :
         fs = [f \in FileNames |->
                 IF f = "pbx" THEN JoinNL(IF m = "older" THEN StdLines ELSE L)
                 ELSE IF m # "none" /\ f \in {"manual_backup", "orig_backup"} THEN JoinNL(L)
                 ELSE Absent]
    /\ disk \in Trees
    /\ script = "none" /\ pc = "idle"
    /\ text = <<>> /\ lines = <<>> /\ output = <<>> /\ result = <<>>
    /\ valid = "none"
    /\ pre = fs["pbx"]
    /\ log = <<>>
    /\ nruns = 0
    /\ ids = <<>>

InitWith(Docs, Trees) == InitFiles(Docs, Trees) /\ peer = NoPeer

InitFrom(Docs) == InitWith(Docs, Disks)

Init == InitFrom(DocLines)

\* the records of the groups gs in the layout header, isa, children = (, ");",
\* path, "};"
GroupRecords(gs) ==
    [n \in 1..(6 * Len(gs)) |->
        LET g    == gs[((n - 1) \div 6) + 1]
            part == (n - 1) % 6
        IN  CASE part = 0 -> Ln("GrpHdr", g.id, Last(g.path))
              [] part = 1 -> Plain("IsaGrp")
              [] part = 2 -> Plain("ChildrenOpen")
              [] part = 3 -> Plain("Close")
              [] part = 4 -> Ln("Path", NoId, Last(g.path))
              [] OTHER    -> Plain("RecEnd")]

\* BASE_GROUPS in the order of the group IDs
GroupsById ==
    LET top == MaxOf({g.id[2] : g \in Range(BASE_GROUPS)})
        nums == SelectSeq([k \in 1..top |-> k],
                         LAMBDA k : \E g \in Range(BASE_GROUPS) : g.id = FixedId(k))
    IN  [n \in 1..Len(nums) |-> CHOOSE g \in Range(BASE_GROUPS) : g.id = FixedId(nums[n])]

\* the records a manifest may hold, in their order: the groups of BASE_GROUPS as
\* the table lists them, or by ID and followed by the App group
GroupOrders == {BASE_GROUPS, GroupsById \o <<Group(<<"App">>, FixedId(22))>>}

\* the standard manifest with a record for every group of gs in its PBXGroup section
FullLines(gs) ==
    LET b == MinOf({i \in 1..Len(StdLines) : StdLines[i].k = "BeginGrp"})
        e == MinOf({i \in 1..Len(StdLines) : StdLines[i].k = "EndGrp"})
    IN  SubSeq(StdLines, 1, b) \o GroupRecords(gs) \o SubSeq(StdLines, e, Len(StdLines))

\* the manifests made of L by leaving out up to MaxDrop of its marker lines
LackingMarkers(L) ==
    LET marks == {i \in 1..Len(L) : L[i].k \in {"EndBF", "EndFR", "EndGrp", "SrcHdr"}}
    IN  {Pick(L, (1..Len(L)) \ D) : D \in UpTo(marks, MaxDrop)}

\* the manifests that define every group of BASE_GROUPS, some lacking a marker
FullDocs == UNION {LackingMarkers(FullLines(gs)) : gs \in GroupOrders}

InitFull == InitFrom(FullDocs)

Scripts == {"manual", "proper", "ultimate", "complete"}

Next ==
    \/ \E s \in Scripts : Start(s)
    \/ ManualRead \/ ManualBackup \/ ManualRewrite \/ ManualWrite
    \/ ManualValidate \/ ManualRestore
    \/ ProperRead \/ ProperBackup \/ ProperRewrite \/ ProperWrite \/ ProperValidate
    \/ UltimateRead \/ UltimateBackup \/ UltimateRewrite \/ UltimateWrite
    \/ UltimateValidate \/ UltimateRestore
    \/ CompleteRestoreOrig \/ CompleteRead \/ CompleteBackup \/ CompleteRewrite
    \/ CompleteWrite \/ CompleteValidate \/ CompleteRestore
    \/ Finish

Spec == Init /\ [][Next]_vars

NextManual ==
    \/ Start("manual")
    \/ ManualRead \/ ManualBackup \/ ManualRewrite \/ ManualWrite
    \/ ManualValidate \/ ManualRestore
    \/ Finish

SpecManual == Init /\ [][NextManual]_vars

NextProper ==
    \/ Start("proper")
    \/ ProperRead \/ ProperBackup \/ ProperRewrite \/ ProperWrite \/ ProperValidate
    \/ Finish

SpecProper == Init /\ [][NextProper]_vars

NextUltimate ==
    \/ Start("ultimate")
    \/ UltimateRead \/ UltimateBackup \/ UltimateRewrite \/ UltimateWrite
    \/ UltimateValidate \/ UltimateRestore
    \/ Finish

SpecUltimate == Init /\ [][NextUltimate]_vars

\* ULTIMATE_FIX.py on manifests that define every group of BASE_GROUPS
SpecUltimateFull == InitFull /\ [][NextUltimate]_vars

NextComplete ==
    \/ Start("complete")
    \/ CompleteRestoreOrig \/ CompleteRead \/ CompleteBackup \/ CompleteRewrite
    \/ CompleteWrite \/ CompleteValidate \/ CompleteRestore
    \/ Finish

SpecComplete == Init /\ [][NextComplete]_vars

(***************************************************************************)
(* The rewrite of manual_fix.py as a function of the text read: splitlines,*)
(* the loop with given lists of generated records, join and final newline. *)
(* The texts have '\n' as their only line separator.                       *)
(***************************************************************************)
MaxLen == 5

\* the characters of a text: the newline and the contents of a line
TextChars == {NL, Plain("Other"), Plain("EndBF"), Plain("EndFR")}

\* the texts of at most MaxLen pieces, every line's content being one piece
RewriteTexts ==
    UNION {{t \in [1..n -> TextChars] : \A i \in 1..(n - 1) : t[i] = NL \/ t[i + 1] = NL} :
           n \in 0..MaxLen}

InitRewrite ==
    /\ \E t \in RewriteTexts : fs = [f \in FileNames |-> IF f = "pbx" THEN t ELSE Absent]
    /\ disk = [files |-> <<>>, cdm |-> FALSE]
    /\ script = "rewrite" /\ pc = "read"
    /\ text = <<>> /\ lines = <<>> /\ output = <<>> /\ result = <<>>
    /\ valid = "none"
    /\ pre = fs["pbx"]
    /\ log = <<>>
    /\ nruns = 0
    /\ ids = <<>>
    /\ peer = NoPeer

RewriteRead ==
    /\ script = "rewrite" /\ pc = "read"
    /\ text' = fs["pbx"]
    /\ lines' = SplitLines(fs["pbx"])
    /\ pc' = "rewrite"
    /\ UNCHANGED <<fs, disk, ids, script, output, result, valid, pre, log, nruns, peer>>

RewriteLoop ==
    /\ script = "rewrite" /\ pc = "rewrite"
    /\ LET r == ManualLoop(lines, 1, <<>>, NoEntries)
       IN  IF r.ok
           THEN /\ output' = r.out
                /\ result' = JoinNL(r.out)
                /\ pc' = "write"
           ELSE /\ pc' = "raised"
                /\ UNCHANGED <<output, result, peer>>
    /\ UNCHANGED <<fs, disk, ids, script, text, lines, valid, pre, log, nruns, peer>>

RewriteWrite ==
    /\ script = "rewrite" /\ pc = "write"
    /\ WriteFile("pbx", result)
    /\ pc' = "done"
    /\ UNCHANGED <<disk, ids, script, Locals, pre, nruns, peer>>

NextRewrite == RewriteRead \/ RewriteLoop \/ RewriteWrite

SpecRewrite == InitRewrite /\ [][NextRewrite]_vars

(***************************************************************************)
(* fix-xcode-project.py: the identifiers of the entry loop, as strings of  *)
(* characters, for a number of files found on disk.                        *)
(***************************************************************************)
MaxSwift == 27

IdCounterStart == 50

DigitChars == <<"0", "1", "2", "3", "4", "5", "6", "7", "8", "9">>

\* str(n) for a natural number n
RECURSIVE Decimal(_)
Decimal(n) ==
    IF n < 10 THEN <<DigitChars[n + 1]>>
    ELSE Append(Decimal(n \div 10), DigitChars[(n % 10) + 1])

\* f"{n:02d}": at least two digits, padded with zeros on the left
Format02d(n) == IF n < 10 THEN <<"0">> \o Decimal(n) ELSE Decimal(n)

\* f"A100000{id_counter:02d}"
SeqFileRefId(id_counter) == <<"A", "1", "0", "0", "0", "0", "0">> \o Format02d(id_counter)

\* f"A100000{id_counter+1:02d}"
SeqBuildFileId(id_counter) == <<"A", "1", "0", "0", "0", "0", "0">> \o Format02d(id_counter + 1)

\* the n Swift files found below the source root, none of them in the project
SeqDisk(n) ==
    [files |-> [k \in 1..n |-> File(<<"Core", "Models">>, "Model" \o ToString(k) \o ".swift")],
     cdm   |-> FALSE]

InitSeq ==
    /\ \E n \in 0..MaxSwift : disk = SeqDisk(n)
    /\ fs = [f \in FileNames |-> IF f = "pbx" THEN JoinNL(StdLines) ELSE Absent]
    /\ script = "seq" /\ pc = "entries"
    /\ text = <<>> /\ lines = <<>> /\ output = <<>> /\ result = <<>>
    /\ valid = "none"
    /\ pre = fs["pbx"]
    /\ log = <<>>
    /\ nruns = 0
    /\ ids = <<>>
    /\ peer = NoPeer

\* id_counter at the head of the loop, two identifiers being taken per file
SeqIdCounter == IdCounterStart + Len(ids)

\* one iteration of the loop over all_swift_files: the two identifiers
SeqAllocate ==
    /\ script = "seq" /\ pc = "entries"
    /\ Len(ids) < 2 * Len(disk.files)
    /\ ids' = ids \o <<SeqFileRefId(SeqIdCounter), SeqBuildFileId(SeqIdCounter)>>
    /\ UNCHANGED <<fs, disk, script, pc, Locals, pre, log, nruns, peer>>

\* the loop is through
SeqAllocated ==
    /\ script = "seq" /\ pc = "entries"
    /\ Len(ids) = 2 * Len(disk.files)
    /\ pc' = "rewrite"
    /\ UNCHANGED <<fs, disk, script, Locals, pre, log, nruns, ids, peer>>

NextSeq == SeqAllocate \/ SeqAllocated

SpecSeq == InitSeq /\ [][NextSeq]_vars

(***************************************************************************)
(* add-files-to-xcode.py.  A group record's header and its isa line are    *)
(* different lines in every manifest of the model, so the test of the four *)
(* group cases of the loop (both substrings in one line) holds for no line.*)
(***************************************************************************)
MaxUuids == 2

\* the values random.choices can return, of which the model has MaxUuids
UuidPool == {<<"rnd", n>> : n \in 1..MaxUuids}

existing_files == curr \cup {"Assets.xcassets"}

\* files_to_add: the Swift files not in existing_files, then the CoreData model
AddFilesToAdd(d) ==
    SelectSeq(d.files, LAMBDA f : f.nm \notin existing_files)
    \o (IF d.cdm THEN <<File(<<"Core", "Storage">>, CdmName)>> ELSE <<>>)

\* file_refs, build_files and group_children['SOURCES'], u being the values
\* generate_uuid returned: u[2k-1] and u[2k] for the k-th file
AddEntries(d, u) ==
    LET fa    == AddFilesToAdd(d)
        swift == SelectSeq([k \in 1..Len(fa) |-> k], LAMBDA k : fa[k].nm # CdmName)
    IN  [refs    |-> [k \in 1..Len(fa) |-> FileRefLine(u[2 * k - 1], fa[k].nm)],
         builds  |-> [n \in 1..Len(swift) |-> BuildFileLine(u[2 * swift[n]], fa[swift[n]].nm)],
         sources |-> [n \in 1..Len(swift) |-> SourceLine(u[2 * swift[n]], fa[swift[n]].nm)]]

\* in_sources_phase when the loop is at the 'files = (' test of line i
InSourcesPhase(L, i) ==
    LET B == {j \in 1..i : L[j].k = "BeginSrc"}
        E == {j \in 1..i : L[j].k = "EndSrc"}
    IN  B # {} /\ (E = {} \/ MaxOf(B) > MaxOf(E))

\* the lines behind which the loop appends generated lines
AddCases(L) ==
    {i \in 1..Len(L) :
        \/ L[i].k \in {"BeginBF", "BeginFR"}
        \/ HasFilesOpen(L[i]) /\ InSourcesPhase(L, i)}

\* for i, line in enumerate(lines): the lines up to the next case are copied,
\* and the generated lines of the case follow its line
RECURSIVE AddLoop(_, _, _, _)
AddLoop(L, i, out, g) ==
    LET s == FirstIn(AddCases(L), i, Len(L))
    IN  IF s > Len(L) THEN out \o SubSeq(L, i, Len(L))
        ELSE AddLoop(L, s + 1,
                     out \o SubSeq(L, i, s)
                         \o (IF L[s].k = "BeginBF" THEN g.builds
                             ELSE IF L[s].k = "BeginFR" THEN g.refs
                             ELSE g.sources),
                     g)

\* the source trees with at most two files to add
AddDisks == {d \in Disks : Len(AddFilesToAdd(d)) <= 2}

InitAdd ==
    /\ fs = [f \in FileNames |-> IF f = "pbx" THEN JoinNL(StdLines) ELSE Absent]
    /\ disk \in AddDisks
    /\ script = "none" /\ pc = "idle"
    /\ text = <<>> /\ lines = <<>> /\ output = <<>> /\ result = <<>>
    /\ valid = "none"
    /\ pre = fs["pbx"]
    /\ log = <<>>
    /\ nruns = 0
    /\ ids = <<>>
    /\ peer = NoPeer

AddRead ==
    /\ script = "add" /\ pc = "read"
    /\ text' = fs["pbx"]
    /\ pc' = "entries"
    /\ UNCHANGED <<fs, disk, ids, script, lines, output, result, valid, pre, log, nruns, peer>>

\* the loop over files_to_add: two calls of generate_uuid per file
AddGenerate ==
    /\ script = "add" /\ pc = "entries"
    /\ \E u \in [1..(2 * Len(AddFilesToAdd(disk))) -> UuidPool] : ids' = u
    /\ pc' = "rewrite"
    /\ UNCHANGED <<fs, disk, script, Locals, pre, log, nruns, peer>>

AddRewrite ==
    /\ script = "add" /\ pc = "rewrite"
    /\ lines' = Split(text)
    /\ output' = AddLoop(lines', 1, <<>>, AddEntries(disk, ids))
    /\ result' = Join(output')
    /\ pc' = "backup"
    /\ UNCHANGED <<fs, disk, ids, script, text, valid, pre, log, nruns, peer>>

AddBackup ==
    /\ script = "add" /\ pc = "backup"
    /\ WriteFile("backup", text)
    /\ pc' = "write"
    /\ UNCHANGED <<disk, ids, script, Locals, pre, nruns, peer>>

AddWrite ==
    /\ script = "add" /\ pc = "write"
    /\ WriteFile("pbx", result)
    /\ pc' = "done"
    /\ UNCHANGED <<disk, ids, script, Locals, pre, nruns, peer>>

NextAdd ==
    \/ Start("add")
    \/ AddRead \/ AddGenerate \/ AddRewrite \/ AddBackup \/ AddWrite
    \/ Finish

SpecAdd == InitAdd /\ [][NextAdd]_vars

(***************************************************************************)
(* fix_xcode_project.py.  As in add-files-to-xcode.py, the test of step 4  *)
(* (group ID comment and 'isa = PBXGroup' in one line) holds for no line   *)
(* of the manifests of the model, whose group records are multi-line.      *)
(***************************************************************************)
SubgroupCounterStart == 200

FileCounterStart == 1000

\* (f"FILE{counter:08d}" + "0" * 24)[:24].upper(): one value per counter below 10^8
generate_xcode_id(counter) == <<"FILE", counter>>

\* sorted(SUBGROUPS_NEEDED.keys())
SUBGROUPS_NEEDED ==
    << <<"Features", "Auth", "Views">>,
       <<"Features", "Documents", "ViewModels">>,
       <<"Features", "Documents", "Views">>,
       <<"Features", "Home", "ViewModels">>,
       <<"Features", "Home", "Views">>,
       <<"Features", "Profile", "ViewModels">>,
       <<"Features", "Profile", "Views">>,
       <<"Features", "Settings", "Views">>,
       <<"UI", "Components", "Buttons">>,
       <<"UI", "Components", "Cards">>,
       <<"UI", "Components", "Inputs">>,
       <<"UI", "Components", "Navigation">>,
       <<"UI", "Components", "Overlays">>,
       <<"UI", "Components", "Rings">> >>

\* SUBGROUPS_NEEDED[subgroup_path] after the loop that generates the IDs
FixerSubgroupId(k) == generate_xcode_id(SubgroupCounterStart + k - 1)

\* existing_refs: the names of the file references whose name ends with .swift;
\* of the names of the model only the CoreData model's does not
FixerExistingRefs(L) ==
    {L[i].nm : i \in {j \in 1..Len(L) : L[j].k = "FileRef" /\ L[j].nm # CdmName}}

\* all_swift_files: filename -> parent, the later path of a name replacing the earlier
RECURSIVE FixerScan(_, _, _)
FixerScan(fl, refs, m) ==
    IF fl = <<>> THEN m
    ELSE IF Head(fl).nm \in refs THEN FixerScan(Tail(fl), refs, m)
    ELSE FixerScan(Tail(fl), refs, DictSet(m, Head(fl).nm, Head(fl).dir))

\* sorted(all_swift_files.items()), then the CoreData model if it exists
FixerFiles(d, L) ==
    LET m   == FixerScan(d.files, FixerExistingRefs(L), <<>>)
        idx == SelectSeq(NameOrder, LAMBDA n : \E k \in 1..Len(m) : m[k].nm = n)
    IN  [j \in 1..Len(idx) |-> CHOOSE x \in Range(m) : x.nm = idx[j]]
        \o (IF d.cdm THEN <<File(<<"Core", "Storage">>, CdmName)>> ELSE <<>>)

\* file_id and build_id of the k-th generated entry
FixerFileId(k) == generate_xcode_id(FileCounterStart + 2 * (k - 1))

FixerBuildId(k) == generate_xcode_id(FileCounterStart + 2 * (k - 1) + 1)

\* the values of generate_xcode_id(file_counter ..) in the order of the calls
FixerIds(fa) ==
    [n \in 1..(2 * Len(fa)) |-> generate_xcode_id(FileCounterStart + n - 1)]

\* file_refs_section, build_files_section, sources_list
FixerEntries(fa) ==
    [refs    |-> [k \in 1..Len(fa) |-> FileRefLine(FixerFileId(k), fa[k].nm)],
     builds  |-> [k \in 1..Len(fa) |-> BuildFileLine(FixerBuildId(k), fa[k].nm)],
     sources |-> [k \in 1..Len(fa) |-> SourceLine(FixerBuildId(k), fa[k].nm)]]

\* group_files[p] as child lines
FixerGroupFiles(fa, p) ==
    LET idx == SelectSeq([k \in 1..Len(fa) |-> k], LAMBDA k : fa[k].dir = p)
    IN  [n \in 1..Len(idx) |-> ChildLine(FixerFileId(idx[n]), fa[idx[n]].nm)]

\* subgroup_definitions: the subgroups that have files, in sorted order
RECURSIVE FixerDefsFrom(_, _)
FixerDefsFrom(fa, k) ==
    IF k > Len(SUBGROUPS_NEEDED) THEN <<>>
    ELSE (IF FixerGroupFiles(fa, SUBGROUPS_NEEDED[k]) = <<>> THEN <<>>
          ELSE GroupDef(FixerSubgroupId(k), Last(SUBGROUPS_NEEDED[k]),
                        FixerGroupFiles(fa, SUBGROUPS_NEEDED[k])))
         \o FixerDefsFrom(fa, k + 1)

FixerDefs(fa) == FixerDefsFrom(fa, 1)

\* the lines at which steps 1 to 3 of the while loop act
FixerCases(L) ==
    {i \in 1..Len(L) : L[i].k \in {"BeginBF", "BeginFR"} \/ HasSourcesHeader(L[i])}

\* the while loop: the lines in front of the next case are copied; steps 1 and 2
\* copy the section up to its end marker and append the generated records, step 3
\* copies up to the first ');' behind 'files = (' and appends the sources
RECURSIVE FixerLoop(_, _, _, _)
FixerLoop(L, i, out, g) ==
    LET s    == FirstIn(FixerCases(L), i, Len(L))
        copy == out \o SubSeq(L, i, s - 1)
    IN  IF s > Len(L) THEN copy
        ELSE IF L[s].k = "BeginBF"
        THEN LET e == ScanTo(L, s + 1, HasEndBuildFile)
             IN  FixerLoop(L, e, copy \o SubSeq(L, s, e - 1) \o g.builds, g)
        ELSE IF L[s].k = "BeginFR"
        THEN LET e == ScanTo(L, s + 1, HasEndFileRef)
             IN  FixerLoop(L, e, copy \o SubSeq(L, s, e - 1) \o g.refs, g)
        ELSE LET f == ScanTo(L, s + 1, HasFilesOpen)
                 c == ScanTo(L, f + 1, HasClose)
             IN  IF f > Len(L) THEN copy \o SubSeq(L, s, Len(L))
                 ELSE FixerLoop(L, c, copy \o SubSeq(L, s, c - 1) \o g.sources, g)

\* final_lines: the subgroup definitions in front of every End PBXGroup marker
RECURSIVE FixerFinal(_, _, _, _)
FixerFinal(N, i, out, defs) ==
    LET s == FirstIn({j \in 1..Len(N) : HasEndGroup(N[j])}, i, Len(N))
    IN  IF s > Len(N) THEN out \o SubSeq(N, i, Len(N))
        ELSE FixerFinal(N, s + 1, out \o SubSeq(N, i, s - 1) \o defs \o <<N[s]>>, defs)

FixerRead ==
    /\ script = "fixer" /\ pc = "read"
    /\ text' = fs["pbx"]
    /\ pc' = "backup"
    /\ UNCHANGED <<fs, disk, ids, script, lines, output, result, valid, pre, log, nruns, peer>>

\* the backup named after the time of the run
FixerBackup ==
    /\ script = "fixer" /\ pc = "backup"
    /\ WriteFile("backup_ts", text)
    /\ pc' = "entries"
    /\ UNCHANGED <<disk, ids, script, Locals, pre, nruns, peer>>

\* existing_refs, all_swift_files and the generated entries
FixerGenerate ==
    /\ script = "fixer" /\ pc = "entries"
    /\ ids' = FixerIds(FixerFiles(disk, Split(text)))
    /\ pc' = "rewrite"
    /\ UNCHANGED <<fs, disk, script, Locals, pre, log, nruns, peer>>

FixerRewrite ==
    /\ script = "fixer" /\ pc = "rewrite"
    /\ \E L \in {Split(text)} :
         \E fa \in {FixerFiles(disk, L)} :
           \E N \in {FixerLoop(L, 1, <<>>, FixerEntries(fa))} :
             \E F \in {FixerFinal(N, 1, <<>>, FixerDefs(fa))} :
               /\ lines' = L
               /\ output' = F
               /\ result' = Join(F)
    /\ pc' = "write"
    /\ UNCHANGED <<fs, disk, ids, script, text, valid, pre, log, nruns, peer>>

FixerWrite ==
    /\ script = "fixer" /\ pc = "write"
    /\ WriteFile("pbx", result)
    /\ pc' = "done"
    /\ UNCHANGED <<disk, ids, script, Locals, pre, nruns, peer>>

NextFixer ==
    \/ Start("fixer")
    \/ FixerRead \/ FixerBackup \/ FixerGenerate \/ FixerRewrite \/ FixerWrite
    \/ Finish

SpecFixer == Init /\ [][NextFixer]_vars

(***************************************************************************)
(* Manifests whose Sources list already has many entries.                  *)
(***************************************************************************)
MaxEntries == 50

\* StdLines with n more entries in the files list of the Sources phase
LongLines(n) ==
    LET f == MinOf({i \in 1..Len(StdLines) : HasFilesOpen(StdLines[i])})
    IN  SubSeq(StdLines, 1, f)
        \o [k \in 1..n |-> Ln("SrcEntry", FixedId(100 + k), "Existing.swift")]
        \o SubSeq(StdLines, f + 1, Len(StdLines))

LongDocs == {LongLines(n) : n \in 0..MaxEntries}

InitLong == InitFrom(LongDocs)

SpecProperLong == InitLong /\ [][NextProper]_vars

(***************************************************************************)
(* Manifests whose Sources list holds a nested list: a line that opens it, *)
(* one entry, and the ');' line that closes it.                            *)
(***************************************************************************)
\* StdLines with a nested list behind the first n entries of the Sources list
NestedLines(n) ==
    LET f == MinOf({i \in 1..Len(StdLines) : HasFilesOpen(StdLines[i])})
    IN  SubSeq(StdLines, 1, f + n)
        \o <<Plain("NestOpen"), Ln("SrcEntry", FixedId(101), "Inner.swift"), Plain("Close")>>
        \o SubSeq(StdLines, f + n + 1, Len(StdLines))

NestedDocs == DocLines \cup {NestedLines(0), NestedLines(1)}

InitNested == InitFrom(NestedDocs)

SpecManualNested == InitNested /\ [][NextManual]_vars

(***************************************************************************)
(* Source trees with two new files in one directory that is not a group.   *)
(***************************************************************************)
SiblingDisks ==
    {[files |-> << File(<<"App">>, "ZairyuMateApp.swift"),
                   File(<<"Features", "Home", "ViewModels">>, "HomeVM.swift"),
                   File(<<"Features", "Home", "ViewModels">>, "ListVM.swift") >>
                \o more,
      cdm   |-> c] :
        more \in {<<>>, <<File(<<"Features", "Home", "Views">>, "HomeView.swift")>>},
        c \in BOOLEAN}

InitSiblings == InitWith(FullDocs, SiblingDisks)

SpecUltimateSiblings == InitSiblings /\ [][NextUltimate]_vars

(***************************************************************************)
(* Runs of manual_fix.py and ULTIMATE_FIX.py on one project, in any order, *)
(* MaxSeq of them at most, from the standard manifest or one that lacks up  *)
(* to MaxDrop of its markers.                                              *)
(***************************************************************************)
InitSeqRuns == InitWith(LackingMarkers(StdLines), Disks)

NextSeqRuns ==
    \/ \E s \in {"manual", "ultimate"} : StartUpTo(s, MaxSeq)
    \/ ManualRead \/ ManualBackup \/ ManualRewrite \/ ManualWrite
    \/ ManualValidate \/ ManualRestore
    \/ UltimateRead \/ UltimateBackup \/ UltimateRewrite \/ UltimateWrite
    \/ UltimateValidate \/ UltimateRestore
    \/ Finish

SpecSeqRuns == InitSeqRuns /\ [][NextSeqRuns]_vars

(***************************************************************************)
(* fix_project.py and fix-xcode-project.py: the generated lines go to the  *)
(* lines of index 16, 29 and 293 of the manifest.                          *)
(***************************************************************************)
BuildFilesIndex == 16

FileRefsIndex == 29

SourcesIndex == 293

ProjectSeed == 50000

MaxShift == 1

\* n times the line l
Rep(n, l) == [k \in 1..n |-> l]

\* a manifest of the layout the three indices fit when it has nine build file
\* records: nb build file records from index 8 on, ten file references, np lines
\* of other sections, and the Sources phase
IndexedLines(nb, np) ==
    Rep(7, Plain("Other"))
    \o <<Plain("BeginBF")>> \o Rep(nb, Ln("BuildFile", FixedId(1), "ZairyuMateApp.swift"))
    \o <<Plain("EndBF"), Plain("Other"), Plain("BeginFR")>>
    \o Rep(10, Ln("FileRef", FixedId(2), "ZairyuMateApp.swift"))
    \o <<Plain("EndFR")>>
    \o Rep(np, Plain("Other"))
    \o <<Plain("BeginSrc"), Plain("SrcHdr"), Plain("IsaSrc"), Plain("Mask"), Plain("FilesOpen"),
         Ln("SrcEntry", FixedId(1), "ZairyuMateApp.swift"),
         Plain("Close"), Plain("RunOnly"), Plain("RecEnd"), Plain("EndSrc"), Plain("Other")>>

\* the manifests of that layout: up to MaxShift build file records more or
\* less than nine, the other sections present or not
IndexedDocs ==
    {IndexedLines(nb, np) : nb \in (9 - MaxShift)..(9 + MaxShift), np \in {0, SourcesIndex - 36}}

InitIndexed == InitWith(IndexedDocs, Disks)

\* the lines L with the lines E behind the line of index i, if there is one
\* (result.append(line), then result.extend(E) when i is the index)
InsertBehindIndex(L, i, E) ==
    IF i < Len(L) THEN SubSeq(L, 1, i + 1) \o E \o SubSeq(L, i + 2, Len(L)) ELSE L

\* the lines L with the lines E before the line of index i, if there is one
\* (new_lines.append(E) when i is the index, then new_lines.append(line))
InsertBeforeIndex(L, i, E) ==
    IF i < Len(L) THEN SubSeq(L, 1, i) \o E \o SubSeq(L, i + 1, Len(L)) ELSE L

\* fix_project.py: sorted(files)
ProjectFiles(d) == SortNames(NewNames(d.files))

ProjectEntries(d) == SeededEntries(ProjectFiles(d), ProjectSeed)

\* the loop of fix_project.py over enumerate(lines)
ProjectResult(L, g) ==
    InsertBehindIndex(InsertBehindIndex(InsertBehindIndex(L, SourcesIndex, g.sources),
                                        FileRefsIndex, g.refs),
                      BuildFilesIndex, g.builds)

\* fix-xcode-project.py: the entries of all_swift_files with the identifiers u
XcodeFiles(d) == NewNames(d.files)

XcodeIds(n) ==
    [k \in 1..(2 * n) |-> IF k % 2 = 1 THEN SeqFileRefId(IdCounterStart + k - 1)
                          ELSE SeqBuildFileId(IdCounterStart + k - 2)]

XcodeEntries(names, u) ==
    [refs    |-> [k \in 1..Len(names) |-> FileRefLine(u[2 * k - 1], names[k])],
     builds  |-> [k \in 1..Len(names) |-> BuildFileLine(u[2 * k], names[k])],
     sources |-> [k \in 1..Len(names) |-> SourceLine(u[2 * k], names[k])]]

\* the loop of fix-xcode-project.py over the lines
XcodeResult(L, g) ==
    InsertBeforeIndex(InsertBeforeIndex(InsertBeforeIndex(L, SourcesIndex, g.sources),
                                        FileRefsIndex, g.refs),
                      BuildFilesIndex, g.builds)

ProjectRead ==
    /\ script = "project" /\ pc = "read"
    /\ text' = fs["pbx"]
    /\ pc' = "backup"
    /\ UNCHANGED <<fs, disk, ids, script, lines, output, result, valid, pre, log, nruns, peer>>

ProjectBackup ==
    /\ script = "project" /\ pc = "backup"
    /\ WriteFile("backup_ts", text)
    /\ pc' = "rewrite"
    /\ UNCHANGED <<disk, ids, script, Locals, pre, nruns, peer>>

ProjectRewrite ==
    /\ script = "project" /\ pc = "rewrite"
    /\ \E L \in {Split(text)} :
         \E O \in {ProjectResult(L, ProjectEntries(disk))} :
            /\ lines' = L
            /\ output' = O
            /\ result' = Join(O)
    /\ pc' = "write"
    /\ UNCHANGED <<fs, disk, ids, script, text, valid, pre, log, nruns, peer>>

ProjectWrite ==
    /\ script = "project" /\ pc = "write"
    /\ WriteFile("pbx", result)
    /\ pc' = "done"
    /\ UNCHANGED <<disk, ids, script, Locals, pre, nruns, peer>>

XcodeRead ==
    /\ script = "xcode" /\ pc = "read"
    /\ text' = fs["pbx"]
    /\ pc' = "entries"
    /\ UNCHANGED <<fs, disk, ids, script, lines, output, result, valid, pre, log, nruns, peer>>

\* the loop over all_swift_files
XcodeGenerate ==
    /\ script = "xcode" /\ pc = "entries"
    /\ ids' = XcodeIds(Len(XcodeFiles(disk)))
    /\ pc' = "rewrite"
    /\ UNCHANGED <<fs, disk, script, Locals, pre, log, nruns, peer>>

XcodeRewrite ==
    /\ script = "xcode" /\ pc = "rewrite"
    /\ \E L \in {Split(text)} :
         \E O \in {XcodeResult(L, XcodeEntries(XcodeFiles(disk), ids))} :
            /\ lines' = L
            /\ output' = O
            /\ result' = Join(O)
    /\ pc' = "backup"
    /\ UNCHANGED <<fs, disk, ids, script, text, valid, pre, log, nruns, peer>>

XcodeBackup ==
    /\ script = "xcode" /\ pc = "backup"
    /\ WriteFile("backup", text)
    /\ pc' = "write"
    /\ UNCHANGED <<disk, ids, script, Locals, pre, nruns, peer>>

XcodeWrite ==
    /\ script = "xcode" /\ pc = "write"
    /\ WriteFile("pbx", result)
    /\ pc' = "done"
    /\ UNCHANGED <<disk, ids, script, Locals, pre, nruns, peer>>

NextIndexed ==
    \/ \E s \in {"project", "xcode"} : StartUpTo(s, 1)
    \/ ProjectRead \/ ProjectBackup \/ ProjectRewrite \/ ProjectWrite
    \/ XcodeRead \/ XcodeGenerate \/ XcodeRewrite \/ XcodeBackup \/ XcodeWrite
    \/ Finish

SpecIndexed == InitIndexed /\ [][NextIndexed]_vars

(***************************************************************************)
(* Two invocations of manual_fix.py on one manifest: the one of script and *)
(* pc, and beside it the one of peer, whose steps are the same lines of    *)
(* the script. peer.seen holds where the first invocation was at the steps *)
(* of the second, peer.orig the manifest before both.                      *)
(***************************************************************************)
RaceDisks == {d \in Disks : Len(d.files) <= 2}

InitRace ==
    /\ InitFiles(LackingMarkers(StdLines), RaceDisks)
    /\ peer = [pc |-> "read", text |-> <<>>, result |-> <<>>, valid |-> "none",
               seen |-> {}, orig |-> fs["pbx"]]

\* where the first invocation is: it has not read the manifest yet, it has
\* ended, or it is between the two
PeerSees ==
    IF nruns = 0 /\ pc \in {"idle", "read"} THEN "before"
    ELSE IF nruns > 0 \/ Ended THEN "after"
    ELSE "during"

\* the step of the second invocation to the position to
PeerGoes(to) == [peer EXCEPT !.pc = to, !.seen = @ \cup {PeerSees}]

PeerLocals == <<script, pc, text, lines, output, result, valid, pre, log, nruns, ids>>

PeerRead ==
    /\ peer.pc = "read"
    /\ peer' = [PeerGoes("backup") EXCEPT !.text = fs["pbx"]]
    /\ UNCHANGED <<fs, disk, PeerLocals>>

PeerBackup ==
    /\ peer.pc = "backup"
    /\ fs' = [fs EXCEPT !["manual_backup"] = peer.text]
    /\ peer' = PeerGoes("rewrite")
    /\ UNCHANGED <<disk, PeerLocals>>

PeerRewrite ==
    /\ peer.pc = "rewrite"
    /\ LET r == ManualLoop(SplitLines(peer.text), 1, <<>>, ManualEntries(disk))
       IN  IF r.ok
           THEN peer' = [PeerGoes("write") EXCEPT !.result = JoinNL(r.out)]
           ELSE peer' = PeerGoes("raised")
    /\ UNCHANGED <<fs, disk, PeerLocals>>

PeerWrite ==
    /\ peer.pc = "write"
    /\ fs' = [fs EXCEPT !["pbx"] = peer.result]
    /\ peer' = PeerGoes("validate")
    /\ UNCHANGED <<disk, PeerLocals>>

PeerValidate ==
    /\ peer.pc = "validate"
    /\ peer' = [PeerGoes(IF ManualValid(peer.result) THEN "done" ELSE "restore")
                  EXCEPT !.valid = IF ManualValid(peer.result) THEN "pass" ELSE "fail"]
    /\ UNCHANGED <<fs, disk, PeerLocals>>

PeerRestore ==
    /\ peer.pc = "restore"
    /\ fs' = [fs EXCEPT !["pbx"] = peer.text]
    /\ peer' = PeerGoes("failed")
    /\ UNCHANGED <<disk, PeerLocals>>

NextRace ==
    \/ StartUpTo("manual", 1)
    \/ ManualRead \/ ManualBackup \/ ManualRewrite \/ ManualWrite
    \/ ManualValidate \/ ManualRestore
    \/ PeerRead \/ PeerBackup \/ PeerRewrite \/ PeerWrite \/ PeerValidate \/ PeerRestore

SpecRace == InitRace /\ [][NextRace]_vars

\* the manifest one whole run of manual_fix.py leaves, having read the manifest t
ManualAfter(t, d) ==
    LET r == ManualLoop(SplitLines(t), 1, <<>>, ManualEntries(d))
    IN  IF r.ok /\ ManualValid(JoinNL(r.out)) THEN JoinNL(r.out) ELSE t

\* manifest and backup after two runs of manual_fix.py, one after the other, on
\* the manifest t: the backup is what the second run read
SerialOutcome(t, d) == <<ManualAfter(ManualAfter(t, d), d), ManualAfter(t, d)>>

(***************************************************************************)
(* The properties.                                                         *)
(***************************************************************************)

\* the number of elements of q that pass the test
Count(q, Test(_)) == Len(SelectSeq(q, Test))

\* s is the index of the ");" that closes the Sources files list of L: the first
\* ");" behind the first "files = (" from a Sources header on
ClosesSourcesList(L, s) ==
    \E h \in 1..Len(L) :
        /\ HasSourcesHeader(L[h])
        /\ LET j == ScanTo(L, h, HasFilesOpen)
           IN  j <= Len(L) /\ s = ScanTo(L, j + 1, HasClose) /\ s <= Len(L)

\* O is L with the block at[k].block put in right in front of line at[k].idx, for
\* the three entries of at, and nothing else changed
WithBlocks(L, O, at) ==
    LET Shift(i) == i
                        + (IF i >= at[1].idx THEN Len(at[1].block) ELSE 0)
                        + (IF i >= at[2].idx THEN Len(at[2].block) ELSE 0)
                        + (IF i >= at[3].idx THEN Len(at[3].block) ELSE 0)
    IN  /\ Len(O) = Len(L) + Len(at[1].block) + Len(at[2].block) + Len(at[3].block)
        /\ \A i \in 1..Len(L) : O[Shift(i)] = L[i]
        /\ \A n \in 1..3 : \A k \in 1..Len(at[n].block) :
               O[Shift(at[n].idx) - Len(at[n].block) + k - 1] = at[n].block[k]

\* the lines of q that are not in the set G, in order
Without(q, G) == SelectSeq(q, LAMBDA x : x \notin G)

\* O keeps every line of L once and in order, and adds only lines of the set G
Frame(L, O, G) ==
    /\ Len(O) >= Len(L)
    /\ Without(O, G) = Without(L, G)
    /\ \A x \in Range(L) : Count(O, LAMBDA y : y = x) >= Count(L, LAMBDA y : y = x)

\* every group record of L has the layout header, isa, ..., children = (, ...,
\* ");", ..., "};" with no other header inside
GroupLayout(L) ==
    \A i \in 1..Len(L) :
        L[i].k = "GrpHdr" =>
            /\ i + 1 <= Len(L) /\ HasIsaGroup(L[i + 1])
            /\ LET j == ScanTo(L, i + 2, HasChildrenOpen)
                   c == ScanTo(L, j + 1, HasClose)
                   e == ScanTo(L, c + 1, HasRecEnd)
               IN  e <= Len(L) /\ \A n \in (i + 1)..e : L[n].k # "GrpHdr"

\* the records and lines a run of ULTIMATE_FIX.py generates
UltimateGenerated(d) ==
    LET fm == UltimateFileMap(d)
        sg == UltimateSubgroups(fm)
        g  == UltimateEntries(fm)
    IN  Range(g.builds) \cup Range(g.refs) \cup Range(g.sources)
        \cup Range(UltimateDefs(sg))
        \cup UNION {Range(UltimateNewChildren(fm, sg, x)) : x \in Range(UltimateAllGroups(sg))}

\* C1: the rewrite loop of ULTIMATE_FIX.py, on a document whose group records
\* have the standard layout, puts every input line into the output once and in
\* order and adds only generated records; the header of a patched group is not
\* emitted a second time and the line behind its "};" is copied.
C1_UltimateFrame ==
    (script = "ultimate" /\ pc = "write" /\ GroupLayout(lines))
    => /\ Frame(lines, output, UltimateGenerated(disk))
       /\ \A i \in 1..Len(lines) :
              lines[i].k = "GrpHdr" => Count(output, LAMBDA y : y = lines[i]) = 1

\* the records and lines a run of complete_fix.py generates
CompleteGenerated(d) ==
    LET fg == CompleteFileGroups(d)
        sg == CompleteSubgroups(fg)
        g  == CompleteEntries(fg)
    IN  Range(g.builds) \cup Range(g.refs) \cup Range(g.sources)
        \cup Range(CompleteDefs(fg, sg))
        \cup UNION {Range(CompleteNewChildren(fg, sg, x)) : x \in Range(CompleteAllGroups(sg))}

\* C2: the rewrite loop of complete_fix.py puts every input line into the output
\* once and in order and adds only generated lines; the ");" closing the Sources
\* files list comes right behind the inserted phase lines.
C2_CompleteFrame ==
    (script = "complete" /\ pc = "write")
    => /\ Frame(lines, output, CompleteGenerated(disk))
       /\ \A s \in 1..Len(lines) :
              ClosesSourcesList(lines, s) =>
                  \E n \in 1..Len(output) :
                      /\ HasClose(output[n])
                      /\ LET src == CompleteEntries(CompleteFileGroups(disk)).sources
                         IN  /\ n > Len(src)
                             /\ SubSeq(output, n - Len(src), n - 1) = src

\* proper_fix.py has written its document
ProperWritten == script = "proper" /\ pc \in {"validate", "done"}

\* C3: when proper_fix.py found its three insertion points and wrote, the written
\* document is the input line sequence with exactly three blocks put in: the
\* build-file records right in front of the End PBXBuildFile line, the file
\* references right in front of the End PBXFileReference line and the phase lines
\* right in front of the ");" closing the Sources files list; every input line is
\* kept, once, in its place and unaltered.
C3_ThreeBlocks ==
    ProperWritten =>
        LET L == Split(pre)
            O == Split(fs["pbx"])
            g == ProperEntries(disk)
        IN  \E b \in {i \in 1..Len(L) : HasEndBuildFile(L[i])},
               f \in {i \in 1..Len(L) : HasEndFileRef(L[i])},
               s \in {i \in 1..Len(L) : ClosesSourcesList(L, i)} :
                   WithBlocks(L, O, << [idx |-> b, block |-> g.builds],
                                          [idx |-> f, block |-> g.refs],
                                          [idx |-> s, block |-> g.sources] >>)

\* proper_fix.py finished a run that put in records of at least two files
C3_Witness ==
    /\ script = "proper" /\ pc = "done"
    /\ Len(ProperEntries(disk).builds) >= 2
    /\ fs["pbx"] # pre
    /\ "pbx" \in Range(log)

\* L has no Sources header followed by its isa line, or lacks a section end marker
ManualAnchorMissing(L) ==
    \/ ~ \E i \in 1..Len(L) : HasEndBuildFile(L[i])
    \/ ~ \E i \in 1..Len(L) : HasEndFileRef(L[i])
    \/ ~ \E i \in 1..(Len(L) - 1) : HasSourcesName(L[i]) /\ HasIsaSources(L[i + 1])

\* C4: a run of manual_fix.py on a manifest that lacks a required anchor leaves
\* the manifest on disk as it was before the run.
C4_ManualNothingWritten ==
    (script = "manual" /\ Ended /\ ManualAnchorMissing(SplitLines(pre)))
    => fs["pbx"] = pre

\* one of the three anchors of proper_fix.py is not in L
ProperAnchorMissing(L) ==
    \/ ~ \E i \in 1..Len(L) : HasEndBuildFile(L[i])
    \/ ~ \E i \in 1..Len(L) : HasEndFileRef(L[i])
    \/ ~ \E s \in 1..Len(L) : ClosesSourcesList(L, s)

\* C5: when one of the three anchors of proper_fix.py is not found, the script
\* exits with failure before any write to the manifest, and the manifest on disk
\* after the failed run is the manifest from before it.
C5_AbortBeforeWrite ==
    (/\ script = "proper"
     /\ pc \in {"write", "validate", "done", "exit1"}
     /\ ProperAnchorMissing(Split(pre)))
    => (pc = "exit1" /\ "pbx" \notin Range(log) /\ fs["pbx"] = pre)

\* proper_fix.py has exited on a manifest that lacks an anchor, after its backup
C5_Witness ==
    /\ script = "proper" /\ pc = "exit1"
    /\ ProperAnchorMissing(Split(pre))
    /\ log = <<"bak">>

\* the backup file a script writes
BackupOf(s) == IF s = "ultimate" THEN "ULTIMATE_BACKUP" ELSE "complete_backup"

\* C6: the backup that complete_fix.py or ULTIMATE_FIX.py has written holds the
\* manifest as it was when the script was started, and no write to the manifest
\* comes before the write of the backup.
C6_BackupOfInvocation ==
    (script \in {"ultimate", "complete"} /\ BackupOf(script) \in Range(log))
    => /\ fs[BackupOf(script)] = pre
       /\ \A k \in 1..Len(log) :
              log[k] = "pbx" => \E j \in 1..(k - 1) : log[j] = BackupOf(script)

\* C7: when the validation of ULTIMATE_FIX.py or complete_fix.py has failed, the
\* manifest at the end of the run is the manifest from before the run.
C7_RestoreOnFailure ==
    (script \in {"ultimate", "complete"} /\ Ended /\ valid = "fail")
    => fs["pbx"] = pre

\* C8: in manual_fix.py, proper_fix.py and complete_fix.py the manifest holds the
\* candidate of the run only when validation has approved it.
C8_WriteAfterApproval ==
    (/\ script \in {"manual", "proper", "complete"}
     /\ pc \in {"validate", "restore", "done"}
     /\ fs["pbx"] = result)
    => valid = "pass"

\* the number of Sources phase anchors of L: header lines followed by the isa line
SourcesAnchors(L) ==
    Cardinality({i \in 1..(Len(L) - 1) : HasSourcesName(L[i]) /\ HasIsaSources(L[i + 1])})

\* C9: the validation of ULTIMATE_FIX.py approves a candidate only if each of
\* the End PBXBuildFile, End PBXFileReference and End PBXGroup markers and the
\* Sources phase anchor is in it exactly once.
C9_ValidationRejects ==
    (script = "ultimate" /\ valid = "pass")
    => /\ Count(output, HasEndBuildFile) = 1
       /\ Count(output, HasEndFileRef) = 1
       /\ Count(output, HasEndGroup) = 1
       /\ SourcesAnchors(output) = 1

\* the lines of L that define a record: build files, file references, groups
Defining(L) == SelectSeq(L, LAMBDA x : x.k \in {"BuildFile", "FileRef", "GrpHdr"})

\* no record ID is defined by two lines of L
UniqueIds(L) ==
    LET D == Defining(L)
    IN  \A i, j \in 1..Len(D) : i # j => D[i].id # D[j].id

\* C10: between the runs of manual_fix.py, which start from a manifest whose
\* record IDs are defined once each (every initial manifest is one), every record
\* ID of the manifest is defined exactly once.
C10_IdsUnique ==
    (pc = "idle" /\ script = "none") => UniqueIds(SplitLines(fs["pbx"]))

\* C13: ULTIMATE_FIX.py generates as many file references for Swift files as
\* there are discovered files with distinct relative paths: a file reference for
\* each, also for two files of one name in different directories.
C13_EntryPerPath ==
    (script = "ultimate" /\ pc = "write")
    => Count(UltimateEntries(UltimateFileMap(disk)).refs, LAMBDA x : x.nm # CdmName)
       = Cardinality({f \in Range(disk.files) : f.nm \notin curr})

\* L defines every group of BASE_GROUPS in the standard layout
DefinesBaseGroups(L) ==
    /\ GroupLayout(L)
    /\ \A g \in Range(BASE_GROUPS) :
           \E i \in 1..Len(L) : L[i].k = "GrpHdr" /\ L[i].id = g.id

\* the ID of the group whose record holds line n of O: the last header up to n
OwnerOf(O, n) ==
    LET H == {h \in 1..n : O[h].k = "GrpHdr"}
    IN  IF H = {} THEN NoId ELSE O[MaxOf(H)].id

\* C14: when the input of ULTIMATE_FIX.py defines every group of BASE_GROUPS in
\* the standard layout, the ID of every generated file reference is a child in
\* exactly one child list of the output: the list of the group whose path is
\* the directory of the file.
C14_ChildOfItsGroup ==
    (script = "ultimate" /\ pc = "write" /\ DefinesBaseGroups(lines))
    => LET fm == UltimateFileMap(disk)
           gs == UltimateAllGroups(UltimateSubgroups(fm))
       IN  \A k \in 1..Len(fm) :
               LET at == {n \in 1..Len(output) :
                             output[n].k = "Child" /\ output[n].id = UltimateFileId(fm, k)}
               IN  /\ Cardinality(at) = 1
                   /\ \A n \in at :
                          \E g \in Range(gs) : g.path = fm[k].dir /\ g.id = OwnerOf(output, n)

\* the indices of the lines of O that list the ID x as a child
ChildAt(O, x) == {n \in 1..Len(O) : O[n].k = "Child" /\ O[n].id = x}

\* C15: in the output of complete_fix.py every ID that is a child or a generated
\* file reference is a child in exactly one group's child list, and every new
\* subgroup whose parent is a new subgroup or a group with a record in the input
\* is listed in the child list of that parent.
C15_GroupTree ==
    (/\ script = "complete" /\ pc = "write" /\ InText(lines, HasEndGroup)
     /\ \A f \in Range(disk.files) : f.dir # <<>>)
    => LET fg == CompleteFileGroups(disk)
           sg == CompleteSubgroups(fg)
           gs == CompleteAllGroups(sg)
           kids == {output[n].id : n \in {n \in 1..Len(output) : output[n].k = "Child"}}
                  \cup {r.id : r \in Range(CompleteEntries(fg).refs)}
       IN  /\ \A x \in kids : Cardinality(ChildAt(output, x)) = 1
           /\ \A k \in 1..Len(sg) :
                  \A g \in Range(gs) :
                      (/\ g.path = sg[k].parent
                       /\ \/ \E j \in 1..Len(sg) : sg[j].path = g.path
                          \/ \E i \in 1..Len(lines) : lines[i].k = "GrpHdr" /\ lines[i].id = g.id)
                      => \E n \in ChildAt(output, sg[k].id) : OwnerOf(output, n) = g.id

\* C16: in ULTIMATE_FIX.py, for a new file at a directory path of which only a
\* proper prefix is a known group, there is a group for every segment of the
\* path after the rewrite, and every new group is listed as a child in the
\* record of its parent when the parent is new or has a record in the input.
C16_GroupPerSegment ==
    (script = "ultimate" /\ pc = "write" /\ InText(lines, HasEndGroup))
    => LET fm == UltimateFileMap(disk)
           sg == UltimateSubgroups(fm)
           gs == UltimateAllGroups(sg)
       IN  \A k \in 1..Len(fm) :
               (\E j \in 1..Len(fm[k].dir) :
                    SubSeq(fm[k].dir, 1, j) \in Paths(BASE_GROUPS))
               => /\ \A j \in 1..Len(fm[k].dir) :
                         \E g \in Range(gs) : g.path = SubSeq(fm[k].dir, 1, j)
                  /\ \A n \in 1..Len(sg) :
                         \A g \in Range(gs) :
                             (/\ g.path = sg[n].parent
                              /\ \/ \E j \in 1..Len(sg) : sg[j].path = g.path
                                 \/ \E i \in 1..Len(lines) :
                                        lines[i].k = "GrpHdr" /\ lines[i].id = g.id)
                             => \E c \in ChildAt(output, sg[n].id) :
                                    OwnerOf(output, c) = g.id

\* C17: a discovered file that lies directly in the source root is a child of a
\* group of the input after the rewrite of complete_fix.py and of
\* ULTIMATE_FIX.py (its file reference ID is in a child list), and no extra
\* group is created for it.
C17_RootFileAttached ==
    (script \in {"complete", "ultimate"} /\ pc = "write" /\ InText(lines, HasEndGroup))
    => \A f \in Range(disk.files) :
           (f.dir = <<>> /\ f.nm \notin curr)
           => IF script = "complete"
              THEN LET fg == CompleteFileGroups(disk)
                   IN  /\ ChildAt(output, CompleteFileId(fg, f.nm)) # {}
                       /\ \A g \in Range(CompleteSubgroups(fg)) : g.path # f.dir
              ELSE LET fm == UltimateFileMap(disk)
                       sg == UltimateSubgroups(fm)
                   IN  /\ \A k \in 1..Len(fm) :
                              fm[k].nm = f.nm => ChildAt(output, UltimateFileId(fm, k)) # {}
                       /\ \A n \in 1..Len(sg) : sg[n].path # StrParent(f)

HexUpper == {"0", "1", "2", "3", "4", "5", "6", "7", "8", "9", "A", "B", "C", "D", "E", "F"}

\* C12: all identifiers that fix-xcode-project.py allocates in one run have the
\* same length and are made of upper-case hexadecimal characters, for any
\* number of files to add.
C12_FixedShape ==
    script = "seq"
    => \A i, j \in 1..Len(ids) :
           /\ Len(ids[i]) = Len(ids[j])
           /\ \A c \in 1..Len(ids[i]) : ids[i][c] \in HexUpper

\* the IDs of the records and list entries of the lines L
IdsIn(L) == {L[i].id : i \in 1..Len(L)} \ {NoId}

\* C11: in add-files-to-xcode.py every value returned by generate_uuid in a run
\* differs from every value returned earlier in the run and from every ID of
\* the loaded manifest.
C11_UuidsFresh ==
    (script = "add" /\ pc \in {"rewrite", "backup", "write", "done"})
    => /\ \A i, j \in 1..Len(ids) : i # j => ids[i] # ids[j]
       /\ \A i \in 1..Len(ids) : ids[i] \notin IdsIn(Split(text))

\* the lines of L of kind k, in order
OfKind(L, k) == SelectSeq(L, LAMBDA x : x.k = k)

\* C20: in the output of add-files-to-xcode.py the new phase-membership lines
\* come after all entries the Sources list had, and the new build-file and
\* file-reference records after all records their sections had, the entries
\* that were there keeping their order.
C20_AppendedBehind ==
    (script = "add" /\ pc \in {"backup", "write", "done"})
    => LET g == AddEntries(disk, ids)
       IN  /\ OfKind(output, "SrcEntry") = OfKind(lines, "SrcEntry") \o g.sources
           /\ OfKind(output, "BuildFile") = OfKind(lines, "BuildFile") \o g.builds
           /\ OfKind(output, "FileRef") = OfKind(lines, "FileRef") \o g.refs

\* the number of lines of kind k in L that carry the name nm
Lines(L, k, nm) == Count(L, LAMBDA x : x.k = k /\ x.nm = nm)

\* C18: a second run of fix_xcode_project.py on the manifest its first run
\* wrote, with the same files on disk, adds no file reference, build file or
\* Sources entry for a name that has a file reference in that manifest (the
\* CoreData model included), and allocates no ID that is in that manifest.
C18_SecondRunAddsNothing ==
    (script = "fixer" /\ pc = "write" /\ nruns = 1)
    => /\ \A i \in 1..Len(lines) :
              lines[i].k = "FileRef"
              => \A k \in {"FileRef", "BuildFile", "SrcEntry"} :
                     Lines(output, k, lines[i].nm) = Lines(lines, k, lines[i].nm)
       /\ \A n \in 1..Len(ids) : ids[n] \notin IdsIn(lines)

\* C26: in manual_fix.py the validation passes exactly when the document read
\* holds both the End PBXBuildFile and the End PBXFileReference marker: the
\* restore branch is taken only for a document that lacks one of them,
\* whatever the rewrite inserted.
C26_ValidationByMarkers ==
    (script = "manual" /\ valid # "none")
    => /\ valid = "pass" <=> (InText(lines, HasEndBuildFile) /\ InText(lines, HasEndFileRef))
       /\ pc \in {"restore", "failed"}
              => ~(InText(lines, HasEndBuildFile) /\ InText(lines, HasEndFileRef))

\* a run whose rewrite added records to a document with both markers and
\* whose validation passed
C26_Witness ==
    /\ script = "manual" /\ pc = "done" /\ valid = "pass"
    /\ InText(lines, HasEndBuildFile) /\ InText(lines, HasEndFileRef)
    /\ Len(output) > Len(lines)

\* the document has the Sources header, behind it a 'files = (' line, and behind
\* that a ');' line
HasSourcesList(L) ==
    \E i \in 1..Len(L) :
        /\ HasSourcesHeader(L[i])
        /\ \E j \in i..Len(L) :
               HasFilesOpen(L[j]) /\ \E k \in (j + 1)..Len(L) : HasClose(L[k])

\* C25: proper_fix.py does not abort on a document that holds both end markers
\* (not as its first line) and the Sources header followed by a 'files = ('
\* line and a ');' line, however many lines lie between them.
C25_FindsSourcesList ==
    (/\ script = "proper" /\ pc = "exit1"
     /\ ~Falsy(LastIdx(lines, HasEndBuildFile))
     /\ ~Falsy(LastIdx(lines, HasEndFileRef)))
    => ~HasSourcesList(lines)

\* '(' ends the line: the line opens a list
HasOpen(l) == l.k \in {"FilesOpen", "ChildrenOpen", "ListOpen", "NestOpen"}

\* the index of the ');' line that closes the list opened at line f: the first
\* one with as many opening as closing lines between the two
MatchingClose(L, f) ==
    LET C == {c \in (f + 1)..Len(L) :
                /\ HasClose(L[c])
                /\ Cardinality({j \in (f + 1)..(c - 1) : HasOpen(L[j])})
                   = Cardinality({j \in (f + 1)..(c - 1) : HasClose(L[j])})}
    IN  IF C = {} THEN Len(L) + 1 ELSE MinOf(C)

\* C23: manual_fix.py inserts the new phase-membership lines immediately in
\* front of the ');' line that closes the 'files = (' list of the Sources
\* phase at nesting depth zero, when the document has such a line: the output
\* ends with the new lines followed by the input from that line on.
C23_BeforeMatchingClose ==
    (/\ script = "manual" /\ pc = "write"
     /\ \E i \in 1..(Len(lines) - 3) :
            HasSourcesName(lines[i]) /\ HasIsaSources(lines[i + 1]) /\ HasFilesOpen(lines[i + 3])
     /\ LastIdx(lines, HasEndBuildFile) < LastIdx(lines, HasFilesOpen)
     /\ LastIdx(lines, HasEndFileRef) < LastIdx(lines, HasFilesOpen)
     /\ MatchingClose(lines, LastIdx(lines, HasFilesOpen)) <= Len(lines))
    => LET c    == MatchingClose(lines, LastIdx(lines, HasFilesOpen))
           rest == SubSeq(lines, c, Len(lines))
           new  == ManualEntries(disk).sources
           n    == Len(new) + Len(rest)
       IN  /\ n <= Len(output)
           /\ SubSeq(output, Len(output) - n + 1, Len(output)) = new \o rest

\* the directories that are no group yet and hold several of the new files
SharedNewPaths(fm) ==
    {p \in {fm[k].dir : k \in 1..Len(fm)} :
        /\ p \notin Paths(BASE_GROUPS)
        /\ Cardinality({k \in 1..Len(fm) : fm[k].dir = p}) > 1}

\* the record of the group id, with exactly the child lines ch, is in O once and
\* in front of an End PBXGroup marker
DefinedOnce(O, id, ch) ==
    LET H == {h \in 1..Len(O) : O[h].k = "GrpHdr" /\ O[h].id = id}
    IN  /\ Cardinality(H) = 1
        /\ \A h \in H :
               /\ h + 3 + Len(ch) <= Len(O)
               /\ SubSeq(O, h + 3, h + 2 + Len(ch)) = ch
               /\ HasClose(O[h + 3 + Len(ch)])
               /\ \E e \in (h + 1)..Len(O) : HasEndGroup(O[e])

\* C22: in ULTIMATE_FIX.py, when several new files map to one path that is not
\* a group yet, one group is created for the path, its record is in the output
\* once, in front of the End PBXGroup marker, and the files are its children.
C22_OneGroupPerPath ==
    (script = "ultimate" /\ pc = "write" /\ InText(lines, HasEndGroup))
    => LET fm == UltimateFileMap(disk)
           sg == UltimateSubgroups(fm)
       IN  \A p \in SharedNewPaths(fm) :
               /\ Cardinality({n \in 1..Len(sg) : sg[n].path = p}) = 1
               /\ \A n \in 1..Len(sg) :
                      sg[n].path = p
                      => /\ sg[n].files = UltimateFilesOf(fm, p)
                         /\ DefinedOnce(output, sg[n].id, sg[n].files)

\* the IDs of the records manual_fix.py generates for the source tree
ManualIds(d) ==
    IdsIn(ManualEntries(d).refs) \cup IdsIn(ManualEntries(d).builds)

\* C27: after any sequence of runs of manual_fix.py and ULTIMATE_FIX.py, the
\* document ULTIMATE_FIX.py reads from project.pbxproj.manual_backup holds no
\* record generated by manual_fix.py, and the manifest ULTIMATE_FIX.py has
\* written holds no two file references with the same file name.
C27_CleanStartingPoint ==
    (script = "ultimate" /\ pc = "validate")
    => /\ IdsIn(lines) \cap ManualIds(disk) = {}
       /\ \A i, j \in 1..Len(output) :
              (/\ output[i].k = "FileRef" /\ output[j].k = "FileRef"
               /\ output[i].nm = output[j].nm)
              => i = j

\* the position p of O lies between the marker Begin and the next marker End
Within(O, p, Begin, End) ==
    /\ \E b \in 1..(p - 1) : O[b].k = Begin /\ \A x \in b..p : O[x].k # End
    /\ \E e \in (p + 1)..Len(O) : O[e].k = End

\* the position p of O lies in the files list of the Sources phase
WithinSourcesList(O, p) ==
    \E h \in 1..(p - 4) :
        /\ HasSourcesHeader(O[h]) /\ HasIsaSources(O[h + 1]) /\ HasFilesOpen(O[h + 3])
        /\ \A x \in (h + 4)..p : ~HasClose(O[x])
        /\ \E c \in (p + 1)..Len(O) : HasClose(O[c])

\* the document L has a PBXBuildFile section, a PBXFileReference section and
\* the files list of the Sources phase
HasPlaces(L) ==
    /\ \E b \in 1..Len(L) : L[b].k = "BeginBF" /\ \E e \in (b + 1)..Len(L) : L[e].k = "EndBF"
    /\ \E b \in 1..Len(L) : L[b].k = "BeginFR" /\ \E e \in (b + 1)..Len(L) : L[e].k = "EndFR"
    /\ HasSourcesList(L)

\* the line l is a generated line of the kind k
Generated(l, k) == l.k = k /\ l.nm \notin curr

\* C21: in the manifest fix_project.py or fix-xcode-project.py has written, the
\* new build file records lie in the PBXBuildFile section, the new file
\* references in the PBXFileReference section and the new phase lines in the
\* files list of the Sources phase, and the manifest is written only when
\* the document read has these three places.
C21_InsertedInSections ==
    (script \in {"project", "xcode"} /\ pc = "done")
    => /\ \A p \in 1..Len(output) :
             /\ Generated(output[p], "BuildFile") => Within(output, p, "BeginBF", "EndBF")
             /\ Generated(output[p], "FileRef") => Within(output, p, "BeginFR", "EndFR")
             /\ Generated(output[p], "SrcEntry") => WithinSourcesList(output, p)
       /\ HasPlaces(lines)

\* both invocations of manual_fix.py have ended
RaceEnded == script = "manual" /\ Ended /\ peer.pc \in {"done", "failed", "raised"}

\* the steps of the second invocation all came before the first invocation read
\* the manifest, or all after it had ended
OneAfterTheOther == peer.seen \subseteq {"before"} \/ peer.seen \subseteq {"after"}

\* C24: two invocations of manual_fix.py on one manifest can end in a state of
\* manifest and backup that the two run one after the other do not produce; such
\* an end state (C24_Witness) comes about only when their read, backup and write
\* steps interleave.
C24_OnlyInterleavedDiverge ==
    (RaceEnded /\ <<fs["pbx"], fs["manual_backup"]>> # SerialOutcome(peer.orig, disk))
    => ~OneAfterTheOther

\* both invocations read the manifest before either wrote it, and the end state
\* is not the one of a serial execution
C24_Witness ==
    /\ RaceEnded
    /\ "during" \in peer.seen
    /\ text = peer.orig /\ peer.text = peer.orig
    /\ <<fs["pbx"], fs["manual_backup"]>> # SerialOutcome(peer.orig, disk)

====
